---- MODULE Spec2Model ----
(***************************************************************************)
(* A model of the sparse-blobpool simulator: the event kernel              *)
(* (core/simulator.py, core/events.py), the blob transaction pool          *)
(* (pool/blobpool.py), the network, the block producer and the fetch state   *)
(* machine of the node protocol engine (p2p/node.py).                      *)
(***************************************************************************)
EXTENDS Integers, Sequences, FiniteSets, TLC

VARIABLES
    \* ---- Simulator (core/simulator.py)
    current_time,       \* Simulator._current_time
    event_queue,        \* Simulator._event_queue, the heapq array
    events_processed,   \* Simulator._events_processed
    run_state,          \* "idle", or "running" while inside Simulator.run
    until,              \* the argument of the run call in progress
    sched_count,        \* number of Event objects built so far (payload identity)
    last_event,         \* the event handed to _dispatch_event most recently
    raised,             \* the exception of the most recent kernel call, or "none"
    \* ---- Blobpool (pool/blobpool.py)
    txs,                \* Blobpool._txs: the entries, in dict insertion order
    by_sender,          \* Blobpool._by_sender: sender -> nonce -> tx_hash
    total_size,         \* Blobpool._total_size
    last_result,        \* the AddResult of the most recent pool call: whether
                        \* it added and replaced an entry and how many it
                        \* evicted; NoResult after a call that returns none
    \* ---- Node (p2p/node.py), in two runs built from the same seed
    replica,            \* replica[r]: the node's fetch state for one tx in run r
    \* ---- Network (core/network.py)
    codel_state,        \* Network._codel_state: link -> CoDelState
    messages_delivered, \* Network._messages_delivered
    total_bytes,        \* Network._total_bytes
    \* ---- BlockProducer (core/block_producer.py)
    current_slot,       \* BlockProducer._current_slot
    node_ids,           \* BlockProducer._node_ids
    blocks_produced,    \* BlockProducer._blocks_produced
    total_blobs_included, \* BlockProducer._total_blobs_included
    inclusion_policy,   \* BlockProducer._inclusion_policy
    last_block,         \* the Block of the most recent _broadcast_block
    node_pool,          \* node id -> that Node's pool entries, in dict insertion order
    \* ---- Node (p2p/node.py), block handling; its pool is the Blobpool above
    pending_txs,        \* Node._pending_txs: the hashes being fetched
    \* ---- Node (p2p/node.py), the fetch of one tx hash
    node,               \* the node's fetch state, pool entry, timers and requests
    \* ---- Topology (core/topology.py)
    topology            \* the Topology built most recently: policy, mesh_degree, edges

kvars == <<current_time, event_queue, events_processed, run_state, until,
           sched_count, last_event, raised>>

pvars == <<txs, by_sender, total_size, last_result>>

dvars == <<replica>>

nvars == <<codel_state, messages_delivered, total_bytes>>

bvars == <<current_slot, node_ids, blocks_produced, total_blobs_included,
           inclusion_policy, last_block, node_pool>>

mvars == <<pending_txs>>
fvars == <<node>>
tvars == <<topology>>

\* What the actions of one component leave alone
outside_kernel == <<pvars, dvars, nvars, bvars, mvars, fvars, tvars>>
outside_pool == <<kvars, dvars, nvars, bvars, mvars, fvars, tvars>>
outside_replicas == <<kvars, pvars, nvars, bvars, mvars, fvars, tvars>>
outside_network == <<pvars, dvars, bvars, mvars, fvars, tvars>>
outside_producer == <<pvars, dvars, nvars, mvars, fvars, tvars>>
outside_node == <<dvars, nvars, bvars, fvars, tvars>>

outside_fetch == <<kvars, pvars, dvars, nvars, bvars, mvars, tvars>>
outside_topology == <<kvars, pvars, dvars, nvars, bvars, mvars, fvars>>

vars == <<kvars, pvars, dvars, nvars, bvars, mvars, fvars, tvars>>

\* ------------------------------------------------------------------------
\* Bounds
\* ------------------------------------------------------------------------
MaxTime == 2        \* timestamps range over 0..MaxTime
MaxEvents == 4      \* events scheduled in one behaviour

MaxPeer == 3        \* a node's peers range over 1..MaxPeer
MaxRequests == 3    \* request ids a node allocates in one behaviour
MaxHash == 3        \* tx hashes range over 1..MaxHash
MaxSender == 2      \* senders range over 1..MaxSender
MaxTxSize == 2      \* tx_size ranges over 1..MaxTxSize

MaxMsgSize == 3     \* message sizes range over 1..MaxMsgSize bytes
MaxJitter == 4      \* the most negative jitter drawn for a delivery
MaxArrival == 4     \* deliveries modelled arrive no later than this time

MaxBlocks == 2      \* a block announcement is handled among the first MaxBlocks dispatches
MaxSlot == 3        \* slot ticks are dispatched while current_slot < MaxSlot

\* SimulationConfig, scaled down (config.py)
blobpool_max_bytes == 2
max_txs_per_sender == 2

Times == 0..MaxTime
Priorities == {0, 1}
NoEvent == [timestamp |-> -1, priority |-> -1, sequence |-> -1, order |-> 0]

\* ------------------------------------------------------------------------
\* Event (core/events.py): ordering is the dataclass tuple ordering of the
\* compare=True fields (timestamp, priority, sequence); target and payload
\* (here: order, the payload's identity) take no part in it.
\* ------------------------------------------------------------------------
\* Event(...) as the callers build it: sequence keeps its default 0.
Event(ts, prio, ord) ==
    [timestamp |-> ts, priority |-> prio, sequence |-> 0, order |-> ord]

\* EventLt with the priority field left out of the comparison
EventLtNoPriority(a, b) ==
    \/ a.timestamp < b.timestamp
    \/ a.timestamp = b.timestamp /\ a.sequence < b.sequence

EventLt(a, b) ==
    \/ a.timestamp < b.timestamp
    \/ a.timestamp = b.timestamp /\ a.priority < b.priority
    \/ a.timestamp = b.timestamp /\ a.priority = b.priority
                                 /\ a.sequence < b.sequence

\* ------------------------------------------------------------------------
\* heapq, as the simulator uses it.  Positions are Python's 0-based ones;
\* position p is element p + 1 of the TLA+ sequence.
\* ------------------------------------------------------------------------
At(heap, pos) == heap[pos + 1]
Put(heap, pos, item) == [heap EXCEPT ![pos + 1] = item]

RECURSIVE SiftDownFrom(_, _, _, _)
SiftDownFrom(heap, startpos, pos, newitem) ==
    IF pos > startpos
    THEN LET parentpos == (pos - 1) \div 2
             parent == At(heap, parentpos)
         IN  IF EventLt(newitem, parent)
             THEN SiftDownFrom(Put(heap, pos, parent), startpos, parentpos, newitem)
             ELSE Put(heap, pos, newitem)
    ELSE Put(heap, pos, newitem)

\* heapq._siftdown(heap, startpos, pos)
SiftDown(heap, startpos, pos) == SiftDownFrom(heap, startpos, pos, At(heap, pos))

RECURSIVE SiftUpFrom(_, _, _, _)
SiftUpFrom(heap, startpos, pos, newitem) ==
    LET endpos == Len(heap)
        childpos == 2 * pos + 1
    IN  IF childpos < endpos
        THEN LET rightpos == childpos + 1
                 c == IF rightpos < endpos
                         /\ ~EventLt(At(heap, childpos), At(heap, rightpos))
                      THEN rightpos ELSE childpos
             IN  SiftUpFrom(Put(heap, pos, At(heap, c)), startpos, c, newitem)
        ELSE SiftDown(Put(heap, pos, newitem), startpos, pos)

\* heapq._siftup(heap, pos)
SiftUp(heap, pos) == SiftUpFrom(heap, pos, pos, At(heap, pos))

\* heapq.heappush(heap, item): the heap afterwards
HeapPush(heap, item) == SiftDown(Append(heap, item), 0, Len(heap))

\* heapq.heappop(heap): the item returned
HeapPopItem(heap) == heap[1]

\* heapq.heappop(heap): the heap afterwards
HeapPopRest(heap) ==
    LET lastelt == heap[Len(heap)]
        rest == SubSeq(heap, 1, Len(heap) - 1)
    IN  IF rest = <<>> THEN rest ELSE SiftUp(Put(rest, 0, lastelt), 0)

QueuedEvents(heap) == {heap[i] : i \in 1..Len(heap)}

\* ------------------------------------------------------------------------
\* Simulator
\* ------------------------------------------------------------------------
KernelInit ==
    /\ current_time = 0
    /\ event_queue = <<>>
    /\ events_processed = 0
    /\ run_state = "idle"
    /\ until = 0
    /\ sched_count = 0
    /\ last_event = NoEvent
    /\ raised = "none"

\* ScheduleQueue that loses the event
ScheduleQueueLosesEvent(queue, event) == queue

\* Simulator.schedule(event): the queue afterwards, when the event is accepted
ScheduleQueue(queue, event) == HeapPush(queue, event)

\* ScheduleRejects that lets every timestamp through
ScheduleRejectsNothing(now, event) == FALSE

\* Simulator.schedule(event): rejected when the timestamp is in the past
ScheduleRejects(now, event) == event.timestamp < now

\* Simulator.schedule called from outside a run, with any timestamp
Schedule(ts, prio) ==
    /\ run_state = "idle"
    /\ sched_count < MaxEvents
    /\ LET event == Event(ts, prio, sched_count + 1)
       IN  IF ScheduleRejects(current_time, event)
           THEN /\ raised' = "ValueError"
                /\ UNCHANGED <<event_queue>>
           ELSE /\ raised' = "none"
                /\ event_queue' = ScheduleQueue(event_queue, event)
    /\ sched_count' = sched_count + 1
    /\ UNCHANGED <<current_time, events_processed, run_state, until, last_event>>
    /\ UNCHANGED outside_kernel

\* The priority Simulator.deliver_command gives the command's event
DeliverCommandPriority == 0

\* Simulator.deliver_command(command, target)
DeliverCommand ==
    /\ run_state = "idle"
    /\ sched_count < MaxEvents
    /\ event_queue' = ScheduleQueue(event_queue,
                        Event(current_time, DeliverCommandPriority, sched_count + 1))
    /\ raised' = "none"
    /\ sched_count' = sched_count + 1
    /\ UNCHANGED <<current_time, events_processed, run_state, until, last_event>>
    /\ UNCHANGED outside_kernel

\* Simulator.run(until): entry
RunStart(u) ==
    /\ run_state = "idle"
    /\ run_state' = "running"
    /\ until' = u
    /\ raised' = "none"
    /\ UNCHANGED <<current_time, event_queue, events_processed, sched_count, last_event>>
    /\ UNCHANGED outside_kernel

\* The loop condition of Simulator.run
RunLoopCond == event_queue # <<>> /\ current_time < until

\* Actor.schedule_timer / Actor.send / Network.deliver called by the handler
\* of the dispatched event: one event at current_time + delay
HandlerSchedule(queue, now, delay, prio, ord) ==
    ScheduleQueue(queue, Event(now + delay, prio, ord))

\* One iteration of the loop of Simulator.run that dispatches the popped
\* event; the handler schedules nothing
RunDispatch ==
    /\ run_state = "running"
    /\ RunLoopCond
    /\ LET event == HeapPopItem(event_queue)
       IN  /\ ~(event.timestamp > until)
           /\ current_time' = event.timestamp
           /\ last_event' = event
           /\ event_queue' = HeapPopRest(event_queue)
    /\ events_processed' = events_processed + 1
    /\ UNCHANGED <<run_state, until, sched_count, raised>>
    /\ UNCHANGED outside_kernel

\* The same iteration, the handler scheduling one follow-up event
RunDispatchAndSchedule(delay, prio) ==
    /\ run_state = "running"
    /\ RunLoopCond
    /\ sched_count < MaxEvents
    /\ LET event == HeapPopItem(event_queue)
       IN  /\ ~(event.timestamp > until)
           /\ event.timestamp + delay <= MaxTime
           /\ current_time' = event.timestamp
           /\ last_event' = event
           /\ event_queue' = HandlerSchedule(HeapPopRest(event_queue),
                                event.timestamp, delay, prio, sched_count + 1)
    /\ events_processed' = events_processed + 1
    /\ sched_count' = sched_count + 1
    /\ UNCHANGED <<run_state, until, raised>>
    /\ UNCHANGED outside_kernel

\* The iteration that pops an event beyond `until`, pushes it back and breaks
RunPutBack ==
    /\ run_state = "running"
    /\ RunLoopCond
    /\ LET event == HeapPopItem(event_queue)
       IN  /\ event.timestamp > until
           /\ event_queue' = HeapPush(HeapPopRest(event_queue), event)
    /\ run_state' = "idle"
    /\ UNCHANGED <<current_time, events_processed, until, sched_count, last_event, raised>>
    /\ UNCHANGED outside_kernel

\* Simulator.run returns because the loop condition is false
RunReturn ==
    /\ run_state = "running"
    /\ ~RunLoopCond
    /\ run_state' = "idle"
    /\ UNCHANGED <<current_time, event_queue, events_processed, until, sched_count,
                   last_event, raised>>
    /\ UNCHANGED outside_kernel

KernelNext ==
    \/ \E ts \in Times, prio \in Priorities : Schedule(ts, prio)
    \/ DeliverCommand
    \/ \E u \in Times : RunStart(u)
    \/ RunDispatch
    \/ \E delay \in Times, prio \in Priorities : RunDispatchAndSchedule(delay, prio)
    \/ RunPutBack
    \/ RunReturn

\* ------------------------------------------------------------------------
\* Blobpool (pool/blobpool.py)
\* ------------------------------------------------------------------------
Hashes == 1..MaxHash
Senders == 1..MaxSender
\* One nonce more than max_txs_per_sender, so that a sender at the limit
\* has a nonce it holds no entry for
Nonces == 0..max_txs_per_sender
TxSizes == 1..MaxTxSize
\* The fee bids the pool is driven with: (gas_fee_cap, gas_tip_cap).  The
\* second is a bump of the first that _can_replace accepts.
FeeBids == {<<15, 10>>, <<16, 11>>}
NoHash == 0

\* Blobpool.RBF_BUMP_PERCENT
RBF_BUMP_PERCENT == 10

\* BlobTxEntry, the fields the pool's admission logic reads
BlobTxEntry(h, s, n, fee, tip, size) ==
    [tx_hash |-> h, sender |-> s, nonce |-> n,
     gas_fee_cap |-> fee, gas_tip_cap |-> tip, tx_size |-> size]

Entries ==
    {BlobTxEntry(h, s, n, bid[1], bid[2], size) :
        h \in Hashes, s \in Senders, n \in Nonces, bid \in FeeBids, size \in TxSizes}

\* BlobTxEntry.effective_tip
effective_tip(entry) == entry.gas_tip_cap

\* dict operations on _txs, which keeps insertion order
TxKeys(t) == {t[i].tx_hash : i \in 1..Len(t)}
TxIndex(t, h) == CHOOSE i \in 1..Len(t) : t[i].tx_hash = h
TxGet(t, h) == t[TxIndex(t, h)]
\* _txs[h] = entry: a present key keeps its position
TxSet(t, entry) ==
    IF entry.tx_hash \in TxKeys(t)
    THEN [t EXCEPT ![TxIndex(t, entry.tx_hash)] = entry]
    ELSE Append(t, entry)
\* _txs.pop(h)
TxPop(t, h) ==
    LET i == TxIndex(t, h)
    IN  SubSeq(t, 1, i - 1) \o SubSeq(t, i + 1, Len(t))

EmptyIndex == [s \in Senders |-> [n \in Nonces |-> NoHash]]

\* Blobpool.sender_tx_count
sender_tx_count(idx, s) == Cardinality({n \in Nonces : idx[s][n] # NoHash})

\* last_result after a call that raised or was not an add
NoResult == [added |-> FALSE, replaced |-> FALSE, evicted |-> 0]

PoolInit ==
    /\ txs = <<>>
    /\ by_sender = EmptyIndex
    /\ total_size = 0
    /\ last_result = NoResult

\* The pool as one value, for the helpers below
PoolState(t, idx, size) == [txs |-> t, by_sender |-> idx, total_size |-> size]

\* Blobpool._can_replace
_can_replace(existing, replacement) ==
    LET min_fee_cap == (existing.gas_fee_cap * (100 + RBF_BUMP_PERCENT)) \div 100
        min_tip_cap == (existing.gas_tip_cap * (100 + RBF_BUMP_PERCENT)) \div 100
    IN  replacement.gas_fee_cap >= min_fee_cap /\ replacement.gas_tip_cap >= min_tip_cap

\* Blobpool._remove_internal
_remove_internal(st, h) ==
    LET entry == TxGet(st.txs, h)
    IN  [txs |-> TxPop(st.txs, h),
         total_size |-> st.total_size - entry.tx_size,
         by_sender |-> [st.by_sender EXCEPT ![entry.sender][entry.nonce] = NoHash]]

\* The scan of Blobpool._evict_lowest_priority: the first entry, in dict
\* order, whose effective_tip is below that of every entry before it and not
\* above that of any entry after it; NoHash when every entry is excluded
LowestEntry(t, exclude) ==
    LET cand == {i \in 1..Len(t) : t[i].tx_hash # exclude}
    IN  IF cand = {} THEN NoHash
        ELSE LET i == CHOOSE i \in cand :
                        /\ \A j \in cand : effective_tip(t[i]) <= effective_tip(t[j])
                        /\ \A j \in cand : j < i => effective_tip(t[j]) > effective_tip(t[i])
             IN  t[i].tx_hash

\* _evict_lowest_priority with > for >= in the min_priority test
_evict_lowest_priorityAllowEqual(st, exclude, min_priority) ==
    LET lowest == LowestEntry(st.txs, exclude)
    IN  IF lowest = NoHash THEN NoHash
        ELSE IF effective_tip(TxGet(st.txs, lowest)) > min_priority THEN NoHash
        ELSE lowest

\* Blobpool._evict_lowest_priority: the hash it evicts, or NoHash
_evict_lowest_priority(st, exclude, min_priority) ==
    LET lowest == LowestEntry(st.txs, exclude)
    IN  IF lowest = NoHash THEN NoHash
        ELSE IF effective_tip(TxGet(st.txs, lowest)) >= min_priority THEN NoHash
        ELSE lowest

\* NeedsRoom with the size of the incoming entry left out
NeedsRoomIgnoringNewSize(size, space_needed) == size > blobpool_max_bytes

\* The condition of the eviction loop of Blobpool.add
NeedsRoom(size, space_needed) == size + space_needed > blobpool_max_bytes

\* SenderLimitReached with > for >=
SenderLimitReachedOffByOne(idx, s) == sender_tx_count(idx, s) > max_txs_per_sender

\* The sender limit check of Blobpool.add
SenderLimitReached(idx, s) == sender_tx_count(idx, s) >= max_txs_per_sender

\* The eviction loop of Blobpool.add; r carries the pool and the result so far
RECURSIVE EvictLoop(_, _)
EvictLoop(r, entry) ==
    IF NeedsRoom(r.pool.total_size, entry.tx_size)
    THEN LET evicted == _evict_lowest_priority(r.pool, entry.tx_hash, effective_tip(entry))
         IN  IF evicted = NoHash
             THEN [r EXCEPT !.status = "PoolFull"]
             ELSE EvictLoop([r EXCEPT !.pool = _remove_internal(r.pool, evicted),
                                      !.evicted = Append(r.evicted, evicted)], entry)
    ELSE r

\* Blobpool.add: the pool afterwards and the AddResult or the exception
add(st, entry) ==
    LET existing_hash == st.by_sender[entry.sender][entry.nonce]
        r0 == [pool |-> st, status |-> "added", replaced |-> NoHash, evicted |-> <<>>]
    IN  IF existing_hash # NoHash /\ existing_hash \notin TxKeys(st.txs)
        THEN [r0 EXCEPT !.status = "KeyError"]
        ELSE IF existing_hash # NoHash /\ ~_can_replace(TxGet(st.txs, existing_hash), entry)
        THEN [r0 EXCEPT !.status = "RBFRejected"]
        ELSE LET r1 == IF existing_hash # NoHash
                       THEN [r0 EXCEPT !.pool = _remove_internal(st, existing_hash),
                                       !.replaced = existing_hash]
                       ELSE r0
             IN  IF SenderLimitReached(r1.pool.by_sender, entry.sender)
                 THEN [r1 EXCEPT !.status = "SenderLimitExceeded"]
                 ELSE LET r2 == EvictLoop(r1, entry)
                      IN  IF r2.status = "PoolFull" THEN r2
                          ELSE [r2 EXCEPT !.pool =
                                  [txs |-> TxSet(r2.pool.txs, entry),
                                   by_sender |-> [r2.pool.by_sender EXCEPT
                                        ![entry.sender][entry.nonce] = entry.tx_hash],
                                   total_size |-> r2.pool.total_size + entry.tx_size]]

\* A call of Blobpool.add
Add(entry) ==
    \E r \in {add(PoolState(txs, by_sender, total_size), entry)} :
        /\ txs' = r.pool.txs
        /\ by_sender' = r.pool.by_sender
        /\ total_size' = r.pool.total_size
        /\ last_result' = IF r.status = "added"
                          THEN [added |-> TRUE, replaced |-> r.replaced # NoHash,
                                evicted |-> Len(r.evicted)]
                          ELSE NoResult
        /\ UNCHANGED outside_pool

\* Blobpool.remove
remove(st, h) == IF h \notin TxKeys(st.txs) THEN st ELSE _remove_internal(st, h)

\* A call of Blobpool.remove
Remove(h) ==
    \E r \in {remove(PoolState(txs, by_sender, total_size), h)} :
        /\ txs' = r.txs
        /\ by_sender' = r.by_sender
        /\ total_size' = r.total_size
        /\ last_result' = NoResult
        /\ UNCHANGED outside_pool

\* A call of Blobpool.remove_batch with a list of two hashes
RemoveBatch(h1, h2) ==
    \E r \in {remove(remove(PoolState(txs, by_sender, total_size), h1), h2)} :
        /\ txs' = r.txs
        /\ by_sender' = r.by_sender
        /\ total_size' = r.total_size
        /\ last_result' = NoResult
        /\ UNCHANGED outside_pool

\* A call of Blobpool.clear
Clear ==
    /\ txs' = <<>>
    /\ by_sender' = EmptyIndex
    /\ total_size' = 0
    /\ last_result' = NoResult
    /\ UNCHANGED outside_pool

PoolNext ==
    \/ \E entry \in Entries : Add(entry)
    \/ \E h \in Hashes : Remove(h)
    \/ \E h1, h2 \in Hashes : RemoveBatch(h1, h2)
    \/ Clear

\* ------------------------------------------------------------------------
\* Cell masks (protocol/constants.py)
\* ------------------------------------------------------------------------
\* Width of cell_mask (128 columns in protocol/constants.py, scaled down)
MaskBits == 2
ALL_ONES == 2 ^ MaskBits - 1
Masks == 0..ALL_ONES

\* BitOr that overwrites: cell_mask = received_mask
BitOrOverwrite(a, b) == b

\* a | b on non-negative integers
RECURSIVE BitOr(_, _)
BitOr(a, b) ==
    IF a = 0 THEN b
    ELSE IF b = 0 THEN a
    ELSE (IF a % 2 = 1 \/ b % 2 = 1 THEN 1 ELSE 0) + 2 * BitOr(a \div 2, b \div 2)

\* a & b on non-negative integers
RECURSIVE BitAnd(_, _)
BitAnd(a, b) ==
    IF a = 0 \/ b = 0 THEN 0
    ELSE (IF a % 2 = 1 /\ b % 2 = 1 THEN 1 ELSE 0) + 2 * BitAnd(a \div 2, b \div 2)

\* bin(mask).count("1")
RECURSIVE PopCount(_)
PopCount(mask) == IF mask = 0 THEN 0 ELSE (mask % 2) + PopCount(mask \div 2)

\* The columns a mask has
Bits(mask) == {c \in 0..(MaskBits - 1) : (mask \div 2 ^ c) % 2 = 1}

\* The mask with the columns of a set
RECURSIVE ColumnsMask(_)
ColumnsMask(cols) ==
    IF cols = {} THEN 0
    ELSE LET c == CHOOSE x \in cols : TRUE IN 2 ^ c + ColumnsMask(cols \ {c})

\* ------------------------------------------------------------------------
\* Node (p2p/node.py): the fetch of one announced tx hash by one node, from
\* the announcement to the insertion into the node's pool.
\* next(iter(s)) over a set of ActorId strings yields the element the
\* interpreter's string hashing puts first; the simulator's seed and
\* configuration do not determine it, so a handler is modelled by the set
\* of node states it can produce.
\* All REQUEST_TIMEOUT timers have the same delay, so they fire in the order
\* they were scheduled; so do the PROVIDER_OBSERVATION_TIMEOUT timers.
\* ------------------------------------------------------------------------
Peers == 1..MaxPeer
NoRequest == -1
\* pool.get(tx_hash) is None
NoMask == -1

\* SimulationConfig.min_providers_before_sample
min_providers_before_sample == 2
\* SimulationConfig.extra_random_columns
extra_random_columns == 1
\* Node._custody_mask: the node has column 0 in custody
custody_mask == 1

Roles == {"PROVIDER", "SAMPLER"}

\* Node._peers of the node whose fetch is modelled
FetchPeers == {1, 2, 3}

\* A node without a PendingTx for the hash, whose role for it is `role`
FreshNode(role) ==
    [role |-> role,                 \* _determine_role(tx_hash)
     has_pending |-> FALSE,         \* tx_hash in _pending_txs
     state |-> "NONE",              \* PendingTx.state
     provider_peers |-> {}, sampler_peers |-> {},
     tx_body_received |-> FALSE,
     cells_received |-> 0,
     pending_request_id |-> NoRequest,
     tx_requests |-> 0,             \* GetPooledTransactions sent for this PendingTx
     pending_requests |-> {},       \* _pending_requests: {request_id, target_peer,
                                    \*                     request_type}
     next_request_id |-> 0,
     sent |-> <<>>,                 \* the peers sent a GetPooledTransactions, in order
     request_timers |-> <<>>,       \* request ids of the REQUEST_TIMEOUT timers
                                    \* scheduled and not fired, oldest first
     observation_timers |-> 0,      \* PROVIDER_OBSERVATION_TIMEOUT timers scheduled
                                    \* and not fired
     inflight |-> {},               \* requests sent whose response has not arrived
     announced |-> {},              \* the peers whose announcement has arrived
     pool_mask |-> NoMask,          \* cell_mask of the pool's entry for the hash
     announced_to |-> {},           \* BlobTxEntry.announced_to of that entry
     announcements |-> [p \in FetchPeers |-> <<>>],
                                    \* cell_mask of each NewPooledTransactionHashes
                                    \* sent to the peer for the hash, in order
     tx_seen |-> 0,                 \* calls of metrics.record_tx_seen for the hash
     included |-> FALSE]            \* a BlockAnnouncement listing the hash was handled

\* The elements next(iter(s)) can yield
NextIter(s) == s

\* A request on its way to `peer`, answered later
Request(kind, peer, cell_mask) == [kind |-> kind, peer |-> peer, cell_mask |-> cell_mask]

\* _send_get_transactions, with the id _allocate_request_id returns
_send_get_transactions(n, to_peer) ==
    [n EXCEPT !.pending_request_id = n.next_request_id,
              !.pending_requests = @ \cup {[request_id |-> n.next_request_id,
                                            target_peer |-> to_peer,
                                            request_type |-> "tx"]},
              !.next_request_id = @ + 1,
              !.sent = Append(@, to_peer),
              !.tx_requests = @ + 1,
              !.inflight = @ \cup {Request("tx", to_peer, 0)},
              !.request_timers = Append(@, n.next_request_id)]

\* Node._start_provider_fetch
_start_provider_fetch(n, from_peer) ==
    _send_get_transactions([n EXCEPT !.state = "FETCHING_TX"], from_peer)

\* Node._start_sampler_fetch
_start_sampler_fetch(n) ==
    LET m == [n EXCEPT !.state = "FETCHING_TX"]
    IN  IF m.provider_peers # {}
        THEN {_send_get_transactions(m, target) : target \in NextIter(m.provider_peers)}
        ELSE IF m.sampler_peers # {}
        THEN {_send_get_transactions(m, target) : target \in NextIter(m.sampler_peers)}
        ELSE {m}

\* PendingTx with the announcing peer recorded by its availability
RecordPeer(n, sender, full) ==
    IF full THEN [n EXCEPT !.provider_peers = @ \cup {sender}]
            ELSE [n EXCEPT !.sampler_peers = @ \cup {sender}]

\* _schedule_provider_observation_timeout after the state is set
AwaitProviders(n) ==
    [n EXCEPT !.state = "AWAITING_PROVIDERS", !.observation_timers = @ + 1]

\* Node._handle_announcement for a type-3 announcement of the hash
_handle_announcement(n, sender, full) ==
    IF n.pool_mask # NoMask THEN {n}
    ELSE IF n.has_pending
    THEN LET m == RecordPeer(n, sender, full)
         IN  IF /\ m.state = "AWAITING_PROVIDERS"
                /\ Cardinality(m.provider_peers) >= min_providers_before_sample
             THEN _start_sampler_fetch(m)
             ELSE {m}
    ELSE LET m == RecordPeer([n EXCEPT !.has_pending = TRUE, !.state = "ANNOUNCED",
                                       !.provider_peers = {}, !.sampler_peers = {},
                                       !.tx_body_received = FALSE,
                                       !.cells_received = 0,
                                       !.tx_requests = 0,
                                       !.pending_request_id = NoRequest],
                             sender, full)
         IN  IF m.role = "PROVIDER"
             THEN IF full THEN {_start_provider_fetch(m, sender)}
                  ELSE {AwaitProviders(m)}
             ELSE IF Cardinality(m.provider_peers) >= min_providers_before_sample
                  THEN _start_sampler_fetch(m)
                  ELSE {AwaitProviders(m)}

\* _pending_txs.pop(tx_hash)
DropPending(n) ==
    [n EXCEPT !.has_pending = FALSE, !.state = "NONE",
              !.provider_peers = {}, !.sampler_peers = {},
              !.tx_body_received = FALSE, !.cells_received = 0,
              !.tx_requests = 0,
              !.pending_request_id = NoRequest]

\* ClearRequest that forgets the request and keeps its id in the PendingTx
ClearRequestKeepsId(n) ==
    [n EXCEPT !.pending_requests = {q \in @ : q.request_id # n.pending_request_id}]

\* "Clear pending request" of _handle_transactions and _handle_cells
ClearRequest(n) ==
    IF n.pending_request_id # NoRequest
    THEN [n EXCEPT !.pending_requests = {q \in @ : q.request_id # n.pending_request_id},
                   !.pending_request_id = NoRequest]
    ELSE n

\* The body _request_all_cells and _request_custody_cells share
SendGetCells(n, from_peer, request_mask) ==
    [n EXCEPT !.state = "FETCHING_CELLS",
              !.pending_request_id = n.next_request_id,
              !.pending_requests = @ \cup {[request_id |-> n.next_request_id,
                                            target_peer |-> from_peer,
                                            request_type |-> "cells"]},
              !.next_request_id = @ + 1,
              !.inflight = @ \cup {Request("cells", from_peer, request_mask)},
              !.request_timers = Append(@, n.next_request_id)]

\* Node._request_all_cells
_request_all_cells(n, from_peer) ==
    IF ~n.has_pending THEN {n} ELSE {SendGetCells(n, from_peer, ALL_ONES)}

\* Node._select_extra_columns: the masks rng.sample can yield
_select_extra_columns ==
    LET available_cols == Bits(ALL_ONES) \ Bits(custody_mask)
        count == IF extra_random_columns < Cardinality(available_cols)
                 THEN extra_random_columns ELSE Cardinality(available_cols)
    IN  {ColumnsMask(selected) :
            selected \in {s \in SUBSET available_cols : Cardinality(s) = count}}

\* Node._request_custody_cells
_request_custody_cells(n, from_peer) ==
    IF ~n.has_pending THEN {n}
    ELSE {SendGetCells(n, from_peer, BitOr(custody_mask, extra_columns)) :
             extra_columns \in _select_extra_columns}

\* Node._handle_transactions for a PooledTransactions with one slot, which
\* holds the tx body of the hash or None
_handle_transactions(n, sender, has_body) ==
    IF ~has_body THEN {n}
    ELSE IF ~n.has_pending THEN {n}
    ELSE LET m == [ClearRequest(n) EXCEPT !.tx_body_received = TRUE]
         IN  IF m.role = "PROVIDER" THEN _request_all_cells(m, sender)
             ELSE _request_custody_cells(m, sender)

\* _announce_tx that sends to the peers already in announced_to as well
_announce_txToAll(n) ==
    [n EXCEPT !.announcements = [p \in FetchPeers |-> Append(@[p], n.pool_mask)],
              !.announced_to = @ \cup FetchPeers]

\* Node._announce_tx(entry) for the pool's entry of the hash
_announce_tx(n) ==
    [n EXCEPT !.announcements = [p \in FetchPeers |->
                                    IF p \in n.announced_to THEN @[p]
                                    ELSE Append(@[p], n.pool_mask)],
              !.announced_to = @ \cup FetchPeers]

\* What Blobpool.add(entry) can do with the entry the handlers build for the
\* hash (sender derived from the hash, nonce 0, fixed fees): with the hash
\* stored it is a replacement without a fee bump, RBFRejected; otherwise it
\* is inserted, or PoolFull is raised when other transactions fill the pool
AddOutcomes(n) ==
    IF n.pool_mask # NoMask THEN {"RBFRejected"} ELSE {"added", "PoolFull"}

\* The try block of _complete_tx and _handle_broadcast_transaction:
\* pool.add(entry), record_tx_seen and _announce_tx(entry), or nothing
\* after a rejection
Admit(n, cell_mask, outcome) ==
    IF outcome = "added"
    THEN _announce_tx([n EXCEPT !.pool_mask = cell_mask, !.announced_to = {},
                                !.tx_seen = @ + 1])
    ELSE n

\* Node._complete_tx
_complete_tx(n, cell_mask) ==
    IF ~n.has_pending THEN {n}
    ELSE {Admit(DropPending(n), cell_mask, outcome) : outcome \in AddOutcomes(n)}

\* Node._handle_broadcast_transaction: msg.cell_mask is ALL_ONES
_handle_broadcast_transaction(n) ==
    {Admit(n, ALL_ONES, outcome) : outcome \in AddOutcomes(n)}

\* ProviderHasAll that takes any response
ProviderHasAllAny(cell_mask) == TRUE

\* The provider's test in _handle_cells
ProviderHasAll(cell_mask) == cell_mask = ALL_ONES

\* The sampler's test in _handle_cells
SamplerHasCustody(cells_received) == BitAnd(cells_received, custody_mask) = custody_mask

\* Node._handle_cells for a Cells message that lists the hash
_handle_cells(n, cell_mask) ==
    IF ~n.has_pending THEN {n}
    ELSE LET m == [ClearRequest(n) EXCEPT !.cells_received = BitOr(@, cell_mask)]
         IN  IF m.role = "PROVIDER"
             THEN IF ProviderHasAll(cell_mask) THEN _complete_tx(m, ALL_ONES) ELSE {m}
             ELSE IF SamplerHasCustody(m.cells_received)
                  THEN _complete_tx(m, m.cells_received)
                  ELSE {m}

\* Node._handle_provider_observation_timeout
_handle_provider_observation_timeout(n) ==
    IF ~n.has_pending THEN {n}
    ELSE IF n.state # "AWAITING_PROVIDERS" THEN {n}
    ELSE IF n.provider_peers # {} \/ n.sampler_peers # {}
    THEN IF n.role = "PROVIDER"
         THEN {_start_provider_fetch(n, target) :
                  target \in NextIter(IF n.provider_peers # {} THEN n.provider_peers
                                      ELSE n.sampler_peers)}
         ELSE _start_sampler_fetch(n)
    ELSE {DropPending(n)}

\* other_peers that keeps the peer that timed out
other_peersWithTried(n, tried_peer) == n.provider_peers \cup n.sampler_peers

\* other_peers of _handle_request_timeout
other_peers(n, tried_peer) == (n.provider_peers \cup n.sampler_peers) \ {tried_peer}

\* UnknownRequest that gives up the PendingTx
UnknownRequestDrops(n) == {DropPending(n)}

\* _handle_request_timeout when _pending_requests.pop finds no request
UnknownRequest(n) == {n}

\* PopRequest that leaves the request in the table
PopRequestKeeps(n, found) == n

\* _pending_requests.pop(request_id) of _handle_request_timeout
PopRequest(n, found) == [n EXCEPT !.pending_requests = @ \ found]

\* Node._handle_request_timeout
_handle_request_timeout(n, request_id) ==
    LET found == {q \in n.pending_requests : q.request_id = request_id}
    IN  IF found = {} THEN UnknownRequest(n)
        ELSE LET request == CHOOSE q \in found : TRUE
                 m == PopRequest(n, found)
             IN  IF ~m.has_pending THEN {m}
                 ELSE IF request.request_type = "tx"
                 THEN IF other_peers(m, request.target_peer) # {}
                      THEN {_send_get_transactions(m, new_peer) :
                               new_peer \in NextIter(other_peers(m, request.target_peer))}
                      ELSE {DropPending(m)}
                 ELSE {DropPending(m)}

\* The pop of _pending_txs in Node._handle_block_announcement, for a block
\* that lists the hash
BlockDropsPending(n) == DropPending(n)

\* The kernel pops the oldest REQUEST_TIMEOUT timer
PopRequestTimer(n) == [n EXCEPT !.request_timers = Tail(@)]

\* The kernel pops the oldest PROVIDER_OBSERVATION_TIMEOUT timer
PopObservationTimer(n) == [n EXCEPT !.observation_timers = @ - 1]

\* Two fresh builds: the role is a hash of (node id, tx hash), the same in both
ReplicaInit == \E role \in Roles : replica = [r \in 1..2 |-> FreshNode(role)]

\* The two runs have dispatched the same events so far
InLockstep == replica[1] = replica[2] /\ replica[1].next_request_id < MaxRequests

\* Both runs dispatch the announcement of peer `sender`
Announce(sender, full) ==
    /\ InLockstep
    /\ \E a \in _handle_announcement(replica[1], sender, full),
          b \in _handle_announcement(replica[2], sender, full) :
          replica' = [r \in 1..2 |-> IF r = 1 THEN a ELSE b]
    /\ UNCHANGED outside_replicas

\* Both runs dispatch the ProviderObservationTimeout timer
ProviderObservationTimeout ==
    /\ InLockstep
    /\ replica[1].observation_timers > 0
    /\ \E a \in _handle_provider_observation_timeout(PopObservationTimer(replica[1])),
          b \in _handle_provider_observation_timeout(PopObservationTimer(replica[2])) :
          replica' = [r \in 1..2 |-> IF r = 1 THEN a ELSE b]
    /\ UNCHANGED outside_replicas

\* Both runs dispatch the RequestTimeout timer of request `request_id`
RequestTimeout(request_id) ==
    /\ InLockstep
    /\ replica[1].request_timers # <<>>
    /\ Head(replica[1].request_timers) = request_id
    /\ \E a \in _handle_request_timeout(PopRequestTimer(replica[1]), request_id),
          b \in _handle_request_timeout(PopRequestTimer(replica[2]), request_id) :
          replica' = [r \in 1..2 |-> IF r = 1 THEN a ELSE b]
    /\ UNCHANGED outside_replicas

ReplicaNext ==
    \/ \E sender \in Peers, full \in BOOLEAN : Announce(sender, full)
    \/ ProviderObservationTimeout
    \/ \E request_id \in 0..(MaxRequests - 1) : RequestTimeout(request_id)

\* ------------------------------------------------------------------------
\* One node fetching the hash: the messages and timers it is dispatched.
\* A peer sent a GetPooledTransactions answers with the tx body or with
\* None; a peer sent a GetCells answers with the columns it has among the
\* requested ones.  Responses arrive in any order, as link delays allow.
\* A peer announces the hash once (BlobTxEntry.announced_to).
\* ------------------------------------------------------------------------
\* Request ids and pending timers stay within the bound
WithinBounds(m) ==
    m.next_request_id <= MaxRequests /\ m.observation_timers <= MaxRequests

FetchInit == \E role \in Roles : node = FreshNode(role)

\* on_event(NewPooledTransactionHashes) from `sender`
AnnouncementArrives(sender, full) ==
    /\ sender \notin node.announced
    /\ \E m \in _handle_announcement([node EXCEPT !.announced = @ \cup {sender}],
                                     sender, full) :
          WithinBounds(m) /\ node' = m
    /\ UNCHANGED outside_fetch

\* on_event(PooledTransactions) from a peer that was sent the request
TransactionsArrive(sender, has_body) ==
    /\ Request("tx", sender, 0) \in node.inflight
    /\ \E m \in _handle_transactions(
                   [node EXCEPT !.inflight = @ \ {Request("tx", sender, 0)}],
                   sender, has_body) :
          WithinBounds(m) /\ node' = m
    /\ UNCHANGED outside_fetch

\* on_event(Cells) from a peer that was sent the request with request_mask
CellsArrive(sender, request_mask, cell_mask) ==
    /\ Request("cells", sender, request_mask) \in node.inflight
    /\ BitAnd(cell_mask, request_mask) = cell_mask
    /\ \E m \in _handle_cells(
                   [node EXCEPT !.inflight = @ \ {Request("cells", sender, request_mask)}],
                   cell_mask) :
          node' = m
    /\ UNCHANGED outside_fetch

\* on_event(TimerPayload REQUEST_TIMEOUT) of the oldest request timer
RequestTimerFires ==
    /\ node.request_timers # <<>>
    /\ \E m \in _handle_request_timeout(PopRequestTimer(node),
                                        Head(node.request_timers)) :
          WithinBounds(m) /\ node' = m
    /\ UNCHANGED outside_fetch

\* on_event(TimerPayload PROVIDER_OBSERVATION_TIMEOUT)
ObservationTimerFires ==
    /\ node.observation_timers > 0
    /\ \E m \in _handle_provider_observation_timeout(PopObservationTimer(node)) :
          WithinBounds(m) /\ node' = m
    /\ UNCHANGED outside_fetch

\* on_event(BlockAnnouncement) of a block that lists the hash
BlockAnnounced ==
    /\ ~node.included
    /\ node' = [BlockDropsPending(node) EXCEPT !.included = TRUE]
    /\ UNCHANGED outside_fetch

\* on_event(BroadcastTransaction) for the hash
BroadcastArrives ==
    /\ \E m \in _handle_broadcast_transaction(node) : node' = m
    /\ UNCHANGED outside_fetch

FetchNext ==
    \/ \E sender \in FetchPeers, full \in BOOLEAN : AnnouncementArrives(sender, full)
    \/ \E sender \in FetchPeers, has_body \in BOOLEAN : TransactionsArrive(sender, has_body)
    \/ \E sender \in FetchPeers, request_mask, cell_mask \in Masks :
          CellsArrive(sender, request_mask, cell_mask)
    \/ RequestTimerFires
    \/ ObservationTimerFires
    \/ BlockAnnounced
    \/ BroadcastArrives

\* ------------------------------------------------------------------------
\* Network (core/network.py).  Time is counted in ticks and sizes in bytes;
\* a delay is kept on the tick grid by rounding it down to a whole tick.
\* ------------------------------------------------------------------------
\* CoDelConfig and the link parameters, scaled down
target_delay == 2
interval == 2
max_queue_bytes == 4
drain_rate == 1
default_bandwidth == 1
base_delay == 1

NetActors == {1, 2}
Links == {<<1, 2>>, <<2, 1>>}
MsgSizes == {1, MaxMsgSize}
\* The jitter drawn: a negative outlier, none, or one tick
Jitters == {0 - MaxJitter, 0, 1}

Max(a, b) == IF a >= b THEN a ELSE b

\* floor(sqrt(n))
Isqrt(n) == CHOOSE k \in 0..n : k * k <= n /\ (k + 1) * (k + 1) > n

\* CoDelState()
FreshCoDelState ==
    [queue_bytes |-> 0, queue_start_time |-> 0, drop_count |-> 0, last_drop_time |-> 0]

\* The cap that lets the queue grow past max_queue_bytes
TailDropNone(added) == added

\* The cap of _codel_delay at max queue size (tail drop)
TailDrop(added) == IF added > max_queue_bytes THEN max_queue_bytes ELSE added

\* Network._codel_delay on the state of one link: the state afterwards and
\* the delay returned, rounded down.  sojourn = queue_bytes / drain_rate is
\* compared and scaled with both sides multiplied out, and
\* x > interval / sqrt(d) is x > 0 /\ x * x * d > interval * interval.
_codel_delay(state, now, size_bytes) ==
    LET elapsed == now - state.queue_start_time
        drains == state.queue_bytes > 0 /\ state.queue_start_time >= 0 /\ elapsed > 0
        drained_bytes == IF drains
                         THEN Max(0, state.queue_bytes - elapsed * drain_rate)
                         ELSE state.queue_bytes
        drop_count0 == IF drains /\ drained_bytes = 0 THEN 0 ELSE state.drop_count
        added == drained_bytes + size_bytes
        queue_bytes == TailDrop(added)
        over_target == queue_bytes > target_delay * drain_rate
        time_since_drop == now - state.last_drop_time
        drops == /\ time_since_drop > 0
                 /\ time_since_drop * time_since_drop * Max(1, drop_count0)
                       > interval * interval
        drop_count == IF over_target
                      THEN IF drops THEN drop_count0 + 1 ELSE drop_count0
                      ELSE IF drop_count0 > 0 /\ 2 * queue_bytes < target_delay * drain_rate
                           THEN Max(0, drop_count0 - 1)
                           ELSE drop_count0
    IN  [state |-> [queue_bytes |-> queue_bytes,
                    queue_start_time |-> now,
                    drop_count |-> drop_count,
                    last_drop_time |-> IF over_target /\ drops THEN now
                                       ELSE state.last_drop_time],
         delay |-> IF over_target
                   THEN (2 * queue_bytes + Isqrt(queue_bytes * queue_bytes * drop_count))
                           \div (2 * drain_rate)
                   ELSE queue_bytes \div drain_rate]

\* _calculate_delay without the clamp at 0
_calculate_delayUnclamped(jitter, size_bytes, codel) ==
    base_delay + jitter + size_bytes \div default_bandwidth + codel

\* Network._calculate_delay, given the jitter drawn and the CoDel delay
_calculate_delay(jitter, size_bytes, codel) ==
    Max(0, base_delay + jitter + size_bytes \div default_bandwidth + codel)

\* The Event Network.deliver builds
ArrivalEvent(ts, ord, to) ==
    [timestamp |-> ts, priority |-> 0, sequence |-> 0, order |-> ord, target_id |-> to]

\* The network and the kernel fields Network.deliver reads and writes
NetState == [codel_state |-> codel_state, messages_delivered |-> messages_delivered,
             total_bytes |-> total_bytes, event_queue |-> event_queue,
             current_time |-> current_time]

\* Network.deliver(msg, from_, to) with msg.size_bytes = size_bytes, the
\* jitter drawn being `jitter` and the event built being number `ord`: the
\* state afterwards, the delay computed and the exception raised, if any
deliver(st, link, size_bytes, jitter, ord) ==
    LET codel == _codel_delay(st.codel_state[link], st.current_time, size_bytes)
        delay == _calculate_delay(jitter, size_bytes, codel.delay)
        event == ArrivalEvent(st.current_time + delay, ord, link[2])
        st1 == [st EXCEPT !.codel_state[link] = codel.state]
    IN  IF ScheduleRejects(st.current_time, event)
        THEN [st |-> st1, delay |-> delay, raised |-> "ValueError"]
        ELSE [st |-> [st1 EXCEPT !.event_queue = ScheduleQueue(st.event_queue, event),
                                 !.messages_delivered = @ + 1,
                                 !.total_bytes = @ + size_bytes],
              delay |-> delay, raised |-> "none"]

NetworkInit ==
    /\ codel_state = [l \in Links |-> FreshCoDelState]
    /\ messages_delivered = 0
    /\ total_bytes = 0

\* A call of Network.deliver
Deliver(link, size_bytes, jitter) ==
    /\ sched_count < MaxEvents
    /\ \E r \in {deliver(NetState, link, size_bytes, jitter, sched_count + 1)} :
          /\ current_time + r.delay <= MaxArrival
          /\ codel_state' = r.st.codel_state
          /\ messages_delivered' = r.st.messages_delivered
          /\ total_bytes' = r.st.total_bytes
          /\ event_queue' = r.st.event_queue
          /\ raised' = r.raised
    /\ sched_count' = sched_count + 1
    /\ UNCHANGED <<current_time, events_processed, run_state, until, last_event>>
    /\ UNCHANGED outside_network

\* Deliveries, and runs of the kernel to the latest arrival time, which
\* dispatch the arrivals
NetworkNext ==
    \/ \E link \in Links, size_bytes \in MsgSizes, jitter \in Jitters :
          Deliver(link, size_bytes, jitter)
    \/ RunStart(MaxArrival)
    \/ RunDispatch
    \/ RunReturn

\* ------------------------------------------------------------------------
\* BlockProducer (core/block_producer.py) and the pools of the nodes it
\* proposes from
\* ------------------------------------------------------------------------
\* SlotConfig, scaled down
slot_duration == 2
max_blobs_per_block == 3

BLOCK_PRODUCER_ID == 9
NETWORK_ACTOR_ID == 0
\* The actors that are Node instances, and the ids register_node is called
\* with: 3 is an actor that is not a Node
NodeActors == {1, 2}
RegisterIds == {1, 2, 3}
Policies == {"CONSERVATIVE", "OPTIMISTIC", "PROACTIVE"}

\* The transactions the node pools are filled from: hash, effective tip and
\* blob_count.  Two of them do not fit one block together.
PoolTxs == {1, 2}
TxTip(h) == IF h <= 2 THEN 2 ELSE 1
TxBlobCount(h) == IF h <= 2 THEN 2 ELSE 1

\* BlobTxEntry, the fields the block producer reads
PoolEntry(h, mask) ==
    [tx_hash |-> h, gas_tip_cap |-> TxTip(h), blob_count |-> TxBlobCount(h),
     cell_mask |-> mask]

\* BlobTxEntry.has_full_availability
has_full_availability(tx) == tx.cell_mask = ALL_ONES

\* BlobTxEntry.available_column_count
available_column_count(tx) == PopCount(tx.cell_mask)

\* sorted(..., reverse=True) is stable: an entry goes behind every entry of
\* the same or a higher effective tip that precedes it in the dict
RECURSIVE InsertByPriority(_, _)
InsertByPriority(sorted, entry) ==
    IF sorted = <<>> THEN <<entry>>
    ELSE IF effective_tip(Head(sorted)) >= effective_tip(entry)
         THEN <<Head(sorted)>> \o InsertByPriority(Tail(sorted), entry)
         ELSE <<entry>> \o sorted

\* Blobpool.iter_by_priority
RECURSIVE iter_by_priority(_)
iter_by_priority(t) ==
    IF t = <<>> THEN <<>>
    ELSE InsertByPriority(iter_by_priority(SubSeq(t, 1, Len(t) - 1)), t[Len(t)])

\* _is_includable with every policy treated as OPTIMISTIC
_is_includableOptimistic(policy, tx) == available_column_count(tx) > 0

\* BlockProducer._is_includable
_is_includable(policy, tx) ==
    CASE policy = "CONSERVATIVE" -> has_full_availability(tx)
      [] policy = "OPTIMISTIC" -> available_column_count(tx) > 0
      [] policy = "PROACTIVE" -> has_full_availability(tx)

\* Fits that counts every transaction as one blob
FitsCountingTxs(blob_count, tx) == blob_count + 1 <= max_blobs_per_block

\* The condition of the selection loop of _select_blobs
Fits(blob_count, tx) == blob_count + tx.blob_count <= max_blobs_per_block

\* The selection loop of _select_blobs
RECURSIVE SelectGreedy(_, _, _)
SelectGreedy(candidates, selected, blob_count) ==
    IF candidates = <<>> THEN selected
    ELSE LET tx == Head(candidates)
         IN  IF Fits(blob_count, tx)
             THEN SelectGreedy(Tail(candidates), Append(selected, tx),
                               blob_count + tx.blob_count)
             ELSE SelectGreedy(Tail(candidates), selected, blob_count)

\* BlockProducer._select_blobs on the proposer's pool
_select_blobs(policy, pool) ==
    SelectGreedy(SelectSeq(iter_by_priority(pool), LAMBDA tx : _is_includable(policy, tx)),
                 <<>>, 0)

\* sum(tx.blob_count for tx in included_txs)
RECURSIVE SumBlobCount(_)
SumBlobCount(included) ==
    IF included = <<>> THEN 0
    ELSE Head(included).blob_count + SumBlobCount(Tail(included))

\* _select_proposer that always takes the first registered node
_select_proposerFirst(ids, slot) == ids[1]

\* BlockProducer._select_proposer; Python indexes from 0
_select_proposer(ids, slot) == ids[(slot % Len(ids)) + 1]

\* BlockProducer._get_node: the id, or 0 for None
_get_node(node_id) == IF node_id \in NodeActors THEN node_id ELSE 0

\* TickEvent with no delay
TickEventImmediate(now, ord) ==
    [timestamp |-> now, priority |-> 1, sequence |-> 0,
     order |-> ord, target_id |-> BLOCK_PRODUCER_ID]

\* The Event of Actor.schedule_timer(delay, SLOT_TICK) on the producer
TickEvent(now, ord) ==
    [timestamp |-> now + slot_duration, priority |-> 1, sequence |-> 0,
     order |-> ord, target_id |-> BLOCK_PRODUCER_ID]

\* The Event of Actor.send: a SendRequest for the network at the current time
SendEvent(now, ord) ==
    [timestamp |-> now, priority |-> 0, sequence |-> 0,
     order |-> ord, target_id |-> NETWORK_ACTOR_ID]

\* The loop of _broadcast_block: one send per registered node, in list
\* order; the events are numbered from ord + 1
RECURSIVE SendAll(_, _, _, _)
SendAll(queue, now, n, ord) ==
    IF n = 0 THEN queue
    ELSE ScheduleQueue(SendAll(queue, now, n - 1, ord), SendEvent(now, ord + n))

NoBlock == [slot |-> -1, proposer |-> 0, blob_tx_hashes |-> <<>>]

\* BlockProducer._produce_block followed to its end, on the queue left by
\* popping the tick: the fields afterwards.  `block` is the Block that was
\* broadcast, or NoBlock.
_produce_block(queue, now, ord) ==
    LET proposer_id == IF node_ids = <<>> THEN 0
                       ELSE _select_proposer(node_ids, current_slot)
        proposer == IF proposer_id = 0 THEN 0 ELSE _get_node(proposer_id)
        selected_txs == IF proposer = 0 THEN <<>>
                        ELSE _select_blobs(inclusion_policy, node_pool[proposer])
        sends == IF selected_txs = <<>> THEN 0 ELSE Len(node_ids)
        queue1 == SendAll(queue, now, sends, ord)
    IN  [block |-> IF selected_txs = <<>> THEN NoBlock
                   ELSE [slot |-> current_slot, proposer |-> proposer_id,
                         blob_tx_hashes |->
                            [i \in 1..Len(selected_txs) |-> selected_txs[i].tx_hash]],
         blobs |-> SumBlobCount(selected_txs),
         event_queue |-> ScheduleQueue(queue1, TickEvent(now, ord + sends + 1)),
         sched_count |-> ord + sends + 1]

ProducerInit ==
    /\ current_slot = 0
    /\ node_ids = <<>>
    /\ blocks_produced = 0
    /\ total_blobs_included = 0
    /\ inclusion_policy = "CONSERVATIVE"
    /\ last_block = NoBlock
    /\ node_pool = [n \in NodeActors |-> <<>>]

\* BlockProducer(simulator, slot_config, inclusion_policy) with any policy
ProducerInitAnyPolicy ==
    /\ current_slot = 0
    /\ node_ids = <<>>
    /\ blocks_produced = 0
    /\ total_blobs_included = 0
    /\ inclusion_policy \in Policies
    /\ last_block = NoBlock
    /\ node_pool = [n \in NodeActors |-> <<>>]

\* BlockProducer.register_node
RegisterNode(node_id) ==
    /\ node_ids' = IF \E i \in 1..Len(node_ids) : node_ids[i] = node_id
                   THEN node_ids
                   ELSE Append(node_ids, node_id)
    /\ UNCHANGED <<current_slot, blocks_produced, total_blobs_included,
                   inclusion_policy, last_block, node_pool>>
    /\ UNCHANGED kvars
    /\ UNCHANGED outside_producer

\* BlockProducer.start, called once, before the run
ProducerStart ==
    /\ run_state = "idle"
    /\ sched_count = 0
    /\ event_queue' = ScheduleQueue(event_queue, TickEvent(current_time, 1))
    /\ sched_count' = 1
    /\ raised' = "none"
    /\ UNCHANGED <<current_time, events_processed, run_state, until, last_event>>
    /\ UNCHANGED bvars
    /\ UNCHANGED outside_producer

\* The iteration of Simulator.run that dispatches a SLOT_TICK to the
\* producer: on_event, _produce_block, _broadcast_block and _advance_slot
SlotTick ==
    /\ run_state = "running"
    /\ RunLoopCond
    /\ current_slot < MaxSlot
    /\ LET event == HeapPopItem(event_queue)
       IN  /\ event.target_id = BLOCK_PRODUCER_ID
           /\ ~(event.timestamp > until)
           /\ current_time' = event.timestamp
           /\ last_event' = event
           /\ \E r \in {_produce_block(HeapPopRest(event_queue), event.timestamp,
                                       sched_count)} :
                 /\ event_queue' = r.event_queue
                 /\ sched_count' = r.sched_count
                 /\ last_block' = IF r.block = NoBlock THEN last_block ELSE r.block
                 /\ blocks_produced' = IF r.block = NoBlock THEN blocks_produced
                                       ELSE blocks_produced + 1
                 /\ total_blobs_included' = total_blobs_included + r.blobs
    /\ current_slot' = current_slot + 1
    /\ events_processed' = events_processed + 1
    /\ UNCHANGED <<run_state, until, raised>>
    /\ UNCHANGED <<node_ids, inclusion_policy, node_pool>>
    /\ UNCHANGED outside_producer

\* The iteration of Simulator.run that dispatches a SendRequest to the
\* network, which delivers it (Deliver)
DispatchSendRequest ==
    /\ run_state = "running"
    /\ RunLoopCond
    /\ HeapPopItem(event_queue).target_id = NETWORK_ACTOR_ID
    /\ RunDispatch

\* A node's pool gains an entry (Blobpool.add with nothing to replace or evict)
PoolAdd(n, h, mask) ==
    /\ h \notin TxKeys(node_pool[n])
    /\ node_pool' = [node_pool EXCEPT ![n] = Append(@, PoolEntry(h, mask))]
    /\ UNCHANGED <<current_slot, node_ids, blocks_produced, total_blobs_included,
                   inclusion_policy, last_block>>
    /\ UNCHANGED kvars
    /\ UNCHANGED outside_producer

\* The masks entries enter the pools with under ProducerNext: one column, or all
AddMasks == {1, ALL_ONES}

ProducerNext ==
    \/ \E node_id \in RegisterIds : RegisterNode(node_id)
    \/ ProducerStart
    \/ RunStart(MaxSlot * slot_duration)
    \/ SlotTick
    \/ DispatchSendRequest
    \/ RunReturn
    \/ \E n \in NodeActors, h \in PoolTxs, mask \in AddMasks : PoolAdd(n, h, mask)

\* ------------------------------------------------------------------------
\* BlockProducer._select_blobs called on the pool of node 1, as
\* _produce_block calls it for the proposer, for pools of up to three
\* transactions: two of two blobs and a cheaper one of one blob.
\* ------------------------------------------------------------------------
SelectTxs == {1, 2, 3}

\* The hashes of a list of entries
HashesOf(entries) == [i \in 1..Len(entries) |-> entries[i].tx_hash]

\* selected_txs = self._select_blobs(proposer) with node 1 the proposer
SelectBlobs ==
    /\ node_pool[1] # <<>>
    /\ last_block' = [slot |-> current_slot, proposer |-> 1,
                      blob_tx_hashes |->
                         HashesOf(_select_blobs(inclusion_policy, node_pool[1]))]
    /\ UNCHANGED <<current_slot, node_ids, blocks_produced, total_blobs_included,
                   inclusion_policy, node_pool>>
    /\ UNCHANGED kvars
    /\ UNCHANGED outside_producer

SelectNext ==
    \/ \E h \in SelectTxs, mask \in AddMasks : PoolAdd(1, h, mask)
    \/ SelectBlobs

\* Blobpool.merge_cells(tx_hash, received_mask) on the entries of a pool:
\* the entries afterwards and the value returned, -1 for None
merge_cells(pool, h, received_mask) ==
    IF h \notin TxKeys(pool)
    THEN [pool |-> pool, returned |-> -1]
    ELSE LET i == TxIndex(pool, h)
             merged == BitOr(pool[i].cell_mask, received_mask)
         IN  [pool |-> [pool EXCEPT ![i].cell_mask = merged], returned |-> merged]

\* A call of Blobpool.merge_cells on the pool of node n
MergeCells(n, h, received_mask) ==
    /\ node_pool' = [node_pool EXCEPT ![n] = merge_cells(@, h, received_mask).pool]
    /\ UNCHANGED <<current_slot, node_ids, blocks_produced, total_blobs_included,
                   inclusion_policy, last_block>>
    /\ UNCHANGED kvars
    /\ UNCHANGED outside_producer

\* The masks entries enter the pools with under CellsNext: no column, or one
InitialMasks == {0, 1}

\* Pools that receive entries and cells
CellsNext ==
    \/ \E n \in NodeActors, h \in PoolTxs, mask \in InitialMasks : PoolAdd(n, h, mask)
    \/ \E n \in NodeActors, h \in PoolTxs, mask \in Masks : MergeCells(n, h, mask)

\* ------------------------------------------------------------------------
\* Node (p2p/node.py): block announcements and the cleanup of included
\* transactions.  The node's pool is txs / by_sender / total_size.
\* ------------------------------------------------------------------------
\* cleanup_delay of _schedule_tx_cleanup, in seconds
cleanup_delay == 2

NODE_ID == 1

\* The blob_tx_hashes of the blocks announced
AnnouncedHashes == {<<1>>, <<2>>, <<1, 2>>}

\* The transactions the node adds to its pool, one per hash and one byte
\* each, so that two fill the pool: hashes 1 and 2 come from sender 1 and bid
\* low, the others from sender 2 and bid higher
NodeEntry(h) ==
    IF h <= 2 THEN BlobTxEntry(h, 1, (h - 1) % 2, 15, 10, 1)
    ELSE BlobTxEntry(h, 2, (h - 1) % 2, 16, 11, 1)
NodeEntries == {NodeEntry(h) : h \in Hashes}

\* The hashes a list holds
ListedHashes(hashes) == {hashes[i] : i \in 1..Len(hashes)}

\* The arrival of a BlockAnnouncement, as the run loop dispatches it
BlockEvent(ts, ord, hashes) ==
    [timestamp |-> ts, priority |-> 0, sequence |-> 0, order |-> ord,
     target_id |-> NODE_ID, kind |-> "block", hashes |-> hashes, tx_hash |-> NoHash]

\* CleanupEvent with no delay
CleanupEventImmediate(now, ord, h) ==
    [timestamp |-> now, priority |-> 1, sequence |-> 0, order |-> ord,
     target_id |-> NODE_ID, kind |-> "cleanup", hashes |-> <<>>, tx_hash |-> h]

\* The Event of _schedule_tx_cleanup: schedule_timer(2.0, TX_CLEANUP, {tx_hash})
CleanupEvent(now, ord, h) ==
    [timestamp |-> now + cleanup_delay, priority |-> 1, sequence |-> 0, order |-> ord,
     target_id |-> NODE_ID, kind |-> "cleanup", hashes |-> <<>>, tx_hash |-> h]

\* Node._handle_block_announcement on the listed hashes from position i on:
\* the pending set, the queue and the number of events built afterwards
RECURSIVE _handle_block_announcement(_, _, _, _, _, _)
_handle_block_announcement(hashes, i, pending, queue, now, ord) ==
    IF i > Len(hashes)
    THEN [pending_txs |-> pending, event_queue |-> queue, sched_count |-> ord]
    ELSE IF hashes[i] \in TxKeys(txs)
         THEN _handle_block_announcement(hashes, i + 1, pending \ {hashes[i]},
                  ScheduleQueue(queue, CleanupEvent(now, ord + 1, hashes[i])),
                  now, ord + 1)
         ELSE _handle_block_announcement(hashes, i + 1, pending \ {hashes[i]},
                  queue, now, ord)

\* The hashes that enter _pending_txs: one that blocks list, one that none lists
PendingHashes == {1, 3}

NodeInit == pending_txs = {}

\* A transaction announced to the node enters _pending_txs
PendingInsert(h) ==
    /\ h \notin TxKeys(txs)
    /\ pending_txs' = pending_txs \cup {h}
    /\ UNCHANGED kvars
    /\ UNCHANGED pvars
    /\ UNCHANGED outside_node

\* The iteration of Simulator.run that dispatches the arrival of a
\* BlockAnnouncement to the node at time ts: the network scheduled it for ts
\* and no queued event comes before it
BlockAnnouncementArrives(hashes, ts) ==
    /\ run_state = "running"
    /\ events_processed < MaxBlocks
    /\ current_time < until
    /\ ts >= current_time
    /\ ts <= until
    /\ ts <= MaxTime
    /\ \A e \in QueuedEvents(event_queue) : ts <= e.timestamp
    /\ current_time' = ts
    /\ last_event' = BlockEvent(ts, sched_count + 1, hashes)
    /\ \E r \in {_handle_block_announcement(hashes, 1, pending_txs, event_queue,
                                            ts, sched_count + 1)} :
          /\ pending_txs' = r.pending_txs
          /\ event_queue' = r.event_queue
          /\ sched_count' = r.sched_count
    /\ events_processed' = events_processed + 1
    /\ UNCHANGED <<run_state, until, raised>>
    /\ UNCHANGED pvars
    /\ UNCHANGED outside_node

\* The iteration of Simulator.run that dispatches a TX_CLEANUP timer:
\* Node._handle_tx_cleanup removes the hash from the pool
TxCleanup ==
    /\ run_state = "running"
    /\ RunLoopCond
    /\ LET event == HeapPopItem(event_queue)
       IN  /\ ~(event.timestamp > until)
           /\ current_time' = event.timestamp
           /\ last_event' = event
           /\ event_queue' = HeapPopRest(event_queue)
           /\ \E r \in {remove(PoolState(txs, by_sender, total_size), event.tx_hash)} :
                 /\ txs' = r.txs
                 /\ by_sender' = r.by_sender
                 /\ total_size' = r.total_size
    /\ last_result' = NoResult
    /\ events_processed' = events_processed + 1
    /\ UNCHANGED <<run_state, until, sched_count, raised>>
    /\ UNCHANGED pending_txs
    /\ UNCHANGED outside_node

NodeNext ==
    \/ \E entry \in NodeEntries : Add(entry)
    \/ \E h \in PendingHashes : PendingInsert(h)
    \/ RunStart(MaxTime + cleanup_delay)
    \/ \E hashes \in AnnouncedHashes, ts \in Times : BlockAnnouncementArrives(hashes, ts)
    \/ TxCleanup
    \/ RunReturn


\* ------------------------------------------------------------------------
\* Topology (core/topology.py).  Actor ids "node-0000", "node-0001", ... are
\* zero padded, so they compare as their indices do; a node is its index.
\* ------------------------------------------------------------------------
node_count == 4
TopoNodes == 0..(node_count - 1)
MeshDegrees == 1..node_count

\* No topology built yet
NoTopology == [policy |-> "none", mesh_degree |-> 0, edges |-> <<>>]

\* _normalize_edge
_normalize_edge(a, b) == IF a < b THEN <<a, b>> ELSE <<b, a>>

\* list(s) of a set s: its elements in any order
RECURSIVE ListOf(_)
ListOf(S) ==
    IF S = {} THEN {<<>>}
    ELSE UNION {{<<e>> \o rest : rest \in ListOf(S \ {e})} : e \in S}

\* The edge sets nx.random_regular_graph(d, n) can draw, each pair stored
\* smaller endpoint first: every node has degree d.  The graph is built
\* from the set, so its edges are added in any order
RegularGraphs(d) ==
    {E \in SUBSET {<<a, b>> \in TopoNodes \X TopoNodes : a < b} :
        \A u \in TopoNodes : Cardinality({e \in E : e[1] = u \/ e[2] = u}) = d}

\* The elements of s at the indices in keep, from index k on, in order
RECURSIVE Pick(_, _, _)
Pick(s, keep, k) ==
    IF k > Len(s) THEN <<>>
    ELSE (IF k \in keep THEN <<s[k]>> ELSE <<>>) \o Pick(s, keep, k + 1)

\* The node order of G = nx.Graph() after G.add_edges_from(es): each node
\* is added when an edge first names it
NodeOrder(es) ==
    LET s == [k \in 1..(2 * Len(es)) |-> es[(k + 1) \div 2][IF k % 2 = 1 THEN 1 ELSE 2]]
    IN  Pick(s, {k \in 1..Len(s) : \A j \in 1..(k - 1) : s[j] # s[k]}, 1)

\* The other endpoint of edge e at node u
Other(e, u) == IF e[1] = u THEN e[2] ELSE e[1]

\* G.edges() of that graph: for each node u in node order, the pairs
\* (u, nbr) for the neighbours of u, in the order their edges were added,
\* that were not a first endpoint before
RECURSIVE EdgeView(_, _, _)
EdgeView(es, order, seen) ==
    IF order = <<>> THEN <<>>
    ELSE LET u == Head(order)
             mine == Pick(es, {k \in 1..Len(es) :
                                  /\ es[k][1] = u \/ es[k][2] = u
                                  /\ Other(es[k], u) \notin seen}, 1)
         IN  [k \in 1..Len(mine) |-> <<u, Other(mine[k], u)>>]
                \o EdgeView(es, Tail(order), seen \cup {u})

\* The peers each node selects in the per-node loops: `size` distinct nodes
\* other than itself
PeerChoices(size) ==
    {f \in [TopoNodes -> SUBSET TopoNodes] :
        \A i \in TopoNodes : i \notin f[i] /\ Cardinality(f[i]) = size}

\* The set `edges` after the per-node loop: each selected pair, normalised
SelectedEdges(f) ==
    UNION {{_normalize_edge(i, j) : j \in f[i]} : i \in TopoNodes}

\* min(mesh_degree, len(candidates))
SampleSize(mesh_degree) ==
    IF mesh_degree < node_count - 1 THEN mesh_degree ELSE node_count - 1

\* random_policy: the edge lists it can return
random_policy(mesh_degree) ==
    IF (node_count * mesh_degree) % 2 = 0 /\ mesh_degree < node_count
    THEN UNION {{EdgeView(es, NodeOrder(es), {}) : es \in ListOf(E)} :
                   E \in RegularGraphs(mesh_degree)}
    ELSE UNION {ListOf(SelectedEdges(f)) : f \in PeerChoices(SampleSize(mesh_degree))}

\* geographic_policy: every node ends its three phases with mesh_degree
\* selected peers (all others when there are fewer); which ones depends on
\* the countries, the Kademlia ids and the shuffle
geographic_policy(mesh_degree) ==
    UNION {ListOf(SelectedEdges(f)) : f \in PeerChoices(SampleSize(mesh_degree))}

\* latency_aware_policy: candidates[:mesh_degree] of the peers sorted by
\* latency and a random tiebreaker
latency_aware_policy(mesh_degree) ==
    UNION {ListOf(SelectedEdges(f)) : f \in PeerChoices(SampleSize(mesh_degree))}

\* diverse_policy: phase 3 fills the selection up to mesh_degree peers
diverse_policy(mesh_degree) ==
    UNION {ListOf(SelectedEdges(f)) : f \in PeerChoices(SampleSize(mesh_degree))}

\* build_topology, which the simulation calls once, with
\* interconnection_policy = RANDOM
BuildRandom(mesh_degree) ==
    /\ topology = NoTopology
    /\ \E edges \in random_policy(mesh_degree) :
          topology' = [policy |-> "RANDOM", mesh_degree |-> mesh_degree, edges |-> edges]
    /\ UNCHANGED outside_topology

\* build_topology with interconnection_policy = GEOGRAPHIC
BuildGeographic(mesh_degree) ==
    /\ topology = NoTopology
    /\ \E edges \in geographic_policy(mesh_degree) :
          topology' = [policy |-> "GEOGRAPHIC", mesh_degree |-> mesh_degree, edges |-> edges]
    /\ UNCHANGED outside_topology

\* build_topology with interconnection_policy = LATENCY_AWARE
BuildLatencyAware(mesh_degree) ==
    /\ topology = NoTopology
    /\ \E edges \in latency_aware_policy(mesh_degree) :
          topology' = [policy |-> "LATENCY_AWARE", mesh_degree |-> mesh_degree, edges |-> edges]
    /\ UNCHANGED outside_topology

\* build_topology with interconnection_policy = DIVERSE
BuildDiverse(mesh_degree) ==
    /\ topology = NoTopology
    /\ \E edges \in diverse_policy(mesh_degree) :
          topology' = [policy |-> "DIVERSE", mesh_degree |-> mesh_degree, edges |-> edges]
    /\ UNCHANGED outside_topology

TopologyNext ==
    \/ \E mesh_degree \in MeshDegrees : BuildRandom(mesh_degree)
    \/ \E mesh_degree \in MeshDegrees : BuildGeographic(mesh_degree)
    \/ \E mesh_degree \in MeshDegrees : BuildLatencyAware(mesh_degree)
    \/ \E mesh_degree \in MeshDegrees : BuildDiverse(mesh_degree)

Init ==
    /\ KernelInit /\ PoolInit /\ NetworkInit /\ ProducerInit /\ NodeInit
    /\ replica = [r \in 1..2 |-> FreshNode("SAMPLER")]
    /\ node = FreshNode("SAMPLER")
    /\ topology = NoTopology

InitReplicas ==
    /\ KernelInit /\ PoolInit /\ NetworkInit /\ ProducerInit /\ NodeInit /\ ReplicaInit
    /\ node = FreshNode("SAMPLER")
    /\ topology = NoTopology

InitProducer ==
    /\ KernelInit /\ PoolInit /\ NetworkInit /\ ProducerInitAnyPolicy /\ NodeInit
    /\ replica = [r \in 1..2 |-> FreshNode("SAMPLER")]
    /\ node = FreshNode("SAMPLER")
    /\ topology = NoTopology

InitFetch ==
    /\ KernelInit /\ PoolInit /\ NetworkInit /\ ProducerInit /\ NodeInit /\ FetchInit
    /\ topology = NoTopology
    /\ replica = [r \in 1..2 |-> FreshNode("SAMPLER")]

SpecKernel == Init /\ [][KernelNext]_vars

SpecPool == Init /\ [][PoolNext]_vars

SpecReplicas == InitReplicas /\ [][ReplicaNext]_vars

SpecNetwork == Init /\ [][NetworkNext]_vars

SpecProducer == InitProducer /\ [][ProducerNext]_vars

SpecCells == Init /\ [][CellsNext]_vars

SpecNode == Init /\ [][NodeNext]_vars

SpecFetch == InitFetch /\ [][FetchNext]_vars

SpecTopology == Init /\ [][TopologyNext]_vars

SpecSelect == InitProducer /\ [][SelectNext]_vars

\* ------------------------------------------------------------------------
\* Determinism (C3)
\* ------------------------------------------------------------------------
\* C3: two runs built from the same seed and configuration that have been
\* driven alike have sent the same requests to the same peers and are in
\* the same state.
Deterministic == replica[1] = replica[2]

\* ------------------------------------------------------------------------
\* Blobpool accounting and indexes (C4, C5, C6, C7)
\* ------------------------------------------------------------------------
StoredEntries == {txs[i] : i \in 1..Len(txs)}

RECURSIVE SumTxSize(_)
SumTxSize(t) == IF t = <<>> THEN 0 ELSE Head(t).tx_size + SumTxSize(Tail(t))

\* C4: total_size equals the sum of tx_size over the stored entries.
TotalSizeIsSum == total_size = SumTxSize(txs)

\* C5: by_sender[s][n] = h exactly when h is a stored entry with sender s
\* and nonce n.
IndexesAgree ==
    \A s \in Senders, n \in Nonces, h \in Hashes :
        by_sender[s][n] = h
            <=> \E e \in StoredEntries : e.tx_hash = h /\ e.sender = s /\ e.nonce = n

AddFailures == {"RBFRejected", "SenderLimitExceeded", "PoolFull"}

\* C6: an add that fails with RBFRejected, SenderLimitExceeded or PoolFull
\* leaves the entries, the by_sender index and total_size as they were.
AddAllOrNothing ==
    \A entry \in Entries :
        \E r \in {add(PoolState(txs, by_sender, total_size), entry)} :
            r.status \in AddFailures
               => /\ r.pool.txs = txs
                  /\ r.pool.by_sender = by_sender
                  /\ r.pool.total_size = total_size

\* C7: total_size never exceeds blobpool_max_bytes, and neither does the
\* sum of the sizes of the stored entries.
TotalSizeBounded ==
    /\ total_size <= blobpool_max_bytes
    /\ SumTxSize(txs) <= blobpool_max_bytes

\* An add has evicted an entry to make room and filled the pool to the limit.
TotalSizeBoundedWitness ==
    /\ last_result.added
    /\ last_result.evicted > 0
    /\ total_size = blobpool_max_bytes

\* ------------------------------------------------------------------------
\* Sender limit and replace-by-fee (C8, C9)
\* ------------------------------------------------------------------------
Pool == PoolState(txs, by_sender, total_size)

\* The stored entries of sender s
HeldBy(t, s) == {i \in 1..Len(t) : t[i].sender = s}

\* entry is a replacement for a stored entry of its sender with its nonce,
\* with a fee bump the pool accepts
IsValidRbf(entry) ==
    LET h == by_sender[entry.sender][entry.nonce]
    IN  /\ h # NoHash
        /\ \E old \in StoredEntries :
              /\ old.tx_hash = h /\ old.sender = entry.sender /\ old.nonce = entry.nonce
              /\ _can_replace(old, entry)

\* The sender of entry holds max_txs_per_sender entries
SenderAtLimit(entry) ==
    /\ Cardinality(HeldBy(txs, entry.sender)) = max_txs_per_sender
    /\ sender_tx_count(by_sender, entry.sender) = max_txs_per_sender

EverySenderWithinLimit ==
    \A s \in Senders :
        /\ Cardinality(HeldBy(txs, s)) <= max_txs_per_sender
        /\ sender_tx_count(by_sender, s) <= max_txs_per_sender

NewNonceRejectedAtLimit ==
    \A entry \in Entries :
        (SenderAtLimit(entry) /\ by_sender[entry.sender][entry.nonce] = NoHash)
            => add(Pool, entry).status = "SenderLimitExceeded"

\* C8 as stated: no sender exceeds max_txs_per_sender, an add for a new
\* (sender, nonce) of a sender at the limit fails with SenderLimitExceeded,
\* and a valid RBF replacement by a sender at the limit succeeds and leaves
\* the sender's count unchanged.
SenderLimitRbfSucceeds ==
    /\ EverySenderWithinLimit
    /\ NewNonceRejectedAtLimit
    /\ \A entry \in Entries :
          (SenderAtLimit(entry) /\ IsValidRbf(entry))
             => \E r \in {add(Pool, entry)} :
                  /\ r.status = "added"
                  /\ sender_tx_count(r.pool.by_sender, entry.sender)
                        = sender_tx_count(by_sender, entry.sender)

\* C8 as amended: the same, except that the valid RBF replacement is never
\* rejected by the sender limit (it can still fail with PoolFull); when it
\* is added the sender's count does not grow, and it is unchanged when the
\* add evicts nothing.
SenderLimitRbfBypasses ==
    /\ EverySenderWithinLimit
    /\ NewNonceRejectedAtLimit
    /\ \A entry \in Entries :
          (SenderAtLimit(entry) /\ IsValidRbf(entry))
             => \E r \in {add(Pool, entry)} :
                  /\ r.status \in {"added", "PoolFull"}
                  /\ r.status = "added"
                       => sender_tx_count(r.pool.by_sender, entry.sender)
                             <= sender_tx_count(by_sender, entry.sender)
                  /\ (r.status = "added" /\ r.evicted = <<>>)
                       => sender_tx_count(r.pool.by_sender, entry.sender)
                             = sender_tx_count(by_sender, entry.sender)

\* A sender at the limit has just had one of its entries replaced by fee.
SenderLimitRbfWitness ==
    /\ last_result.added
    /\ last_result.replaced /\ last_result.evicted = 0
    /\ txs # <<>>
    /\ LET newest == txs[Len(txs)]
       IN  /\ by_sender[newest.sender][newest.nonce] = newest.tx_hash
           /\ Cardinality(HeldBy(txs, newest.sender)) = max_txs_per_sender
           /\ sender_tx_count(by_sender, newest.sender) = max_txs_per_sender

\* ceil(x * 110 / 100)
CeilBump(x) == (x * (100 + RBF_BUMP_PERCENT) + 99) \div 100

\* C9: an add that hits a stored entry with its (sender, nonce) replaces it
\* if and only if both caps are at least ceil(110%) of the stored entry's;
\* otherwise it fails with RBFRejected.
RbfNeedsCeilBump ==
    \A entry \in Entries :
        \A old \in StoredEntries :
            (/\ old.sender = entry.sender /\ old.nonce = entry.nonce
             /\ by_sender[entry.sender][entry.nonce] = old.tx_hash)
            => LET enough == /\ entry.gas_fee_cap >= CeilBump(old.gas_fee_cap)
                             /\ entry.gas_tip_cap >= CeilBump(old.gas_tip_cap)
                   r == add(Pool, entry)
               IN  /\ enough <=> r.replaced = old.tx_hash
                   /\ ~enough => r.status = "RBFRejected"

\* ------------------------------------------------------------------------
\* Capacity eviction (C10)
\* ------------------------------------------------------------------------
\* The entries stored when add(entry) makes its i-th eviction: those of the
\* pool without the replaced entry, the entries evicted before, and the
\* entry that carries the hash of the incoming one
StoredAtEviction(entry, r, i) ==
    {e \in StoredEntries :
        /\ e.tx_hash # r.replaced
        /\ e.tx_hash # entry.tx_hash
        /\ \A j \in 1..(i - 1) : e.tx_hash # r.evicted[j]}

\* C10: every entry that add(e) evicts has, when it is removed, the minimum
\* effective_tip among the stored entries other than e, and an effective_tip
\* strictly below that of e; when add(e) fails with PoolFull no stored entry
\* other than e has an effective_tip below that of e.
EvictsOnlyLowest ==
    \A entry \in Entries :
        \E r \in {add(Pool, entry)} :
            /\ \A i \in 1..Len(r.evicted) :
                  \E v \in StoredAtEviction(entry, r, i) :
                     /\ v.tx_hash = r.evicted[i]
                     /\ effective_tip(v) < effective_tip(entry)
                     /\ \A e \in StoredAtEviction(entry, r, i) :
                           effective_tip(v) <= effective_tip(e)
            /\ r.status = "PoolFull"
                 => \A e \in StoredAtEviction(entry, r, Len(r.evicted) + 1) :
                       effective_tip(e) >= effective_tip(entry)

\* An add has evicted the lower of two candidates and kept the other.
EvictsOnlyLowestWitness ==
    /\ last_result.added
    /\ last_result.evicted = 1
    /\ Len(txs) = 2
    /\ effective_tip(txs[1]) < effective_tip(txs[2])

\* ------------------------------------------------------------------------
\* Kernel ordering (C1, C2)
\* ------------------------------------------------------------------------
\* A step of Simulator.run that hands an event to _dispatch_event
IsDispatch == events_processed' = events_processed + 1

\* C1: events are dispatched in non-decreasing timestamp order: the event
\* dispatched is no earlier than the one dispatched before it and no later
\* than any event queued at that moment; and no priority-1 event is dispatched
\* while a priority-0 event with the same timestamp is queued.
DispatchOrder ==
    [][IsDispatch =>
         /\ last_event'.timestamp >= last_event.timestamp
         /\ \A e \in QueuedEvents(event_queue) :
               /\ e.timestamp >= last_event'.timestamp
               /\ e.timestamp = last_event'.timestamp
                    => e.priority >= last_event'.priority]_vars

\* A priority-0 event has been dispatched ahead of a priority-1 event that
\* was scheduled before it for the same timestamp and is still queued.
DispatchOrderWitness ==
    /\ events_processed > 0
    /\ last_event.priority = 0
    /\ \E e \in QueuedEvents(event_queue) :
          /\ e.timestamp = last_event.timestamp
          /\ e.priority = 1
          /\ e.order < last_event.order

\* C2: among the queued events with the timestamp and the priority of the
\* event being dispatched, the one dispatched was scheduled first (FIFO).
FifoOrder ==
    [][IsDispatch =>
         \A e \in QueuedEvents(event_queue) :
            (e.timestamp = last_event'.timestamp /\ e.priority = last_event'.priority)
               => e.order >= last_event'.order]_vars

\* ------------------------------------------------------------------------
\* Kernel time (C15, C16, C17)
\* ------------------------------------------------------------------------
\* The step on which Simulator.run returns
IsRunReturn == run_state = "running" /\ run_state' = "idle"

\* C15: run(until) dispatches exactly the events with timestamp <= until:
\* no event later than until is dispatched, the step on which run returns
\* loses no queued event, and when run returns no event with timestamp
\* <= until is left in the queue.
RunDispatchesUpToUntil ==
    [][/\ IsDispatch => last_event'.timestamp <= until
       /\ IsRunReturn =>
            /\ QueuedEvents(event_queue') = QueuedEvents(event_queue)
            /\ Len(event_queue') = Len(event_queue)
            /\ \A e \in QueuedEvents(event_queue') : e.timestamp > until]_vars

\* C16: every queued event, the earliest included, has a timestamp >=
\* current_time, and current_time never decreases.
TimeNeverGoesBack ==
    /\ [](\A e \in QueuedEvents(event_queue) : e.timestamp >= current_time)
    /\ [][current_time' >= current_time]_vars

\* A run has advanced the clock to the timestamp of an event that is still
\* queued, and a later run call has been made.
TimeNeverGoesBackWitness ==
    /\ current_time > 0
    /\ events_processed > 1
    /\ \E e \in QueuedEvents(event_queue) : e.timestamp = current_time

\* A call of Simulator.schedule (deliver_command included): one more Event
\* has been built
IsScheduleCall == run_state = "idle" /\ sched_count' = sched_count + 1

\* C17: schedule rejects exactly the events with timestamp < current_time;
\* a rejected call leaves the queue and current_time unchanged, an accepted
\* one adds the event, whose timestamp is >= current_time, to the queue.
SchedulePastFails ==
    /\ [](\A ts \in Times :
            ScheduleRejects(current_time, Event(ts, 0, 0)) <=> ts < current_time)
    /\ [][IsScheduleCall =>
            /\ current_time' = current_time
            /\ raised' = "ValueError" => event_queue' = event_queue
            /\ raised' = "none" =>
                 \E e \in QueuedEvents(event_queue') :
                    /\ e.order = sched_count'
                    /\ e.timestamp >= current_time
                    /\ e \notin QueuedEvents(event_queue)
                    /\ QueuedEvents(event_queue') = QueuedEvents(event_queue) \cup {e}
                    /\ Len(event_queue') = Len(event_queue) + 1]_vars

\* After the clock has advanced, an event for the current time has been
\* accepted and an event for an earlier time has been rejected.
SchedulePastFailsWitness ==
    /\ current_time > 0
    /\ raised = "ValueError"
    /\ \E e \in QueuedEvents(event_queue) :
          e.timestamp = current_time /\ e.order > last_event.order


\* A call of Network.deliver
IsDeliverCall == messages_delivered' = messages_delivered + 1

IsSlotTick == IsDispatch /\ last_event'.target_id = BLOCK_PRODUCER_ID
IsBlockEmitted == blocks_produced' = blocks_produced + 1

\* The SLOT_TICK timers in the queue
PendingTicks(queue) == {e \in QueuedEvents(queue) : e.target_id = BLOCK_PRODUCER_ID}

\* C13: once the producer is started, exactly one slot tick is pending, at
\* (current_slot + 1) * slot_duration; every tick dispatched fires at
\* current_slot' * slot_duration, increases current_slot by exactly 1 and
\* leaves exactly one tick pending slot_duration later, with or without
\* registered nodes and with or without a block; current_slot changes in no
\* other step.
SlotTicksAdvance ==
    /\ [](sched_count > 0 =>
            /\ Cardinality(PendingTicks(event_queue)) = 1
            /\ \A e \in PendingTicks(event_queue) :
                  e.timestamp = (current_slot + 1) * slot_duration)
    /\ [][/\ IsSlotTick =>
               /\ current_slot' = current_slot + 1
               /\ current_time' = current_slot' * slot_duration
               /\ Cardinality(PendingTicks(event_queue')) = 1
               /\ \A e \in PendingTicks(event_queue') :
                     /\ e.timestamp = current_time' + slot_duration
                     /\ e \notin QueuedEvents(event_queue)
          /\ ~IsSlotTick => current_slot' = current_slot]_vars

\* Ticks have been dispatched with no node registered or nothing includable,
\* and a tick has produced a block
SlotTicksAdvanceWitness ==
    /\ current_slot = MaxSlot
    /\ blocks_produced = 1

\* The registered nodes
RegisteredNodes == {node_ids[i] : i \in 1..Len(node_ids)}

\* C14: the proposer of slot s is node_ids[s mod |node_ids|] (0-based), so
\* the proposers of any |node_ids| consecutive slots are the registered
\* nodes, each once; a block carries the slot it was produced in and that
\* slot's proposer.
ProposerRoundRobin ==
    /\ [](node_ids # <<>> =>
            LET n == Len(node_ids)
            IN  /\ Cardinality(RegisteredNodes) = n
                /\ \A s \in 0..MaxSlot :
                      /\ \E i \in 1..n : /\ i - 1 = s % n
                                         /\ _select_proposer(node_ids, s) = node_ids[i]
                      /\ \A node_id \in RegisteredNodes :
                            Cardinality({k \in 0..(n - 1) :
                                _select_proposer(node_ids, s + k) = node_id}) = 1)
    /\ [][IsBlockEmitted =>
            /\ last_block'.slot = current_slot
            /\ \E i \in 1..Len(node_ids) :
                  /\ i - 1 = current_slot % Len(node_ids)
                  /\ last_block'.proposer = node_ids[i]]_vars

\* The second of three registered nodes has produced the block of slot 1
ProposerRoundRobinWitness ==
    /\ Len(node_ids) = 3
    /\ blocks_produced > 0
    /\ last_block.slot = 1
    /\ last_block.proposer = node_ids[2]

\* The total blob_count of the transactions with the hashes of a block
RECURSIVE BlockBlobs(_)
BlockBlobs(hashes) ==
    IF hashes = <<>> THEN 0 ELSE TxBlobCount(Head(hashes)) + BlockBlobs(Tail(hashes))

\* C19: whatever the pool of a node holds and whatever the policy, the
\* transactions _select_blobs picks have a total blob_count of at most
\* max_blobs_per_block; every block broadcast lists distinct hashes whose
\* blob_counts sum to at most max_blobs_per_block, and that sum is what
\* total_blobs_included grows by.
BlockWithinBlobLimit ==
    /\ [](\A n \in NodeActors, policy \in Policies :
            SumBlobCount(_select_blobs(policy, node_pool[n])) <= max_blobs_per_block)
    /\ [][IsBlockEmitted =>
            LET hashes == last_block'.blob_tx_hashes
            IN  /\ hashes # <<>>
                /\ \A i, j \in 1..Len(hashes) : i # j => hashes[i] # hashes[j]
                /\ BlockBlobs(hashes) <= max_blobs_per_block
                /\ total_blobs_included' = total_blobs_included + BlockBlobs(hashes)]_vars

\* A block left out a fully available transaction of the proposer's pool
\* that no longer fitted
BlockWithinBlobLimitWitness ==
    /\ blocks_produced > 0
    /\ Len(last_block.blob_tx_hashes) = 1
    /\ LET pool == node_pool[last_block.proposer]
       IN  /\ Len(pool) = 2
           /\ \A i \in 1..2 : pool[i].cell_mask = ALL_ONES
           /\ pool[1].blob_count + pool[2].blob_count > max_blobs_per_block

\* C11: under the CONSERVATIVE policy every hash of a block that is
\* broadcast is, at that moment, in the proposer's pool with
\* cell_mask = ALL_ONES.
ConservativeOnlyFull ==
    [][(inclusion_policy = "CONSERVATIVE" /\ IsBlockEmitted) =>
          LET pool == node_pool[last_block'.proposer]
              hashes == last_block'.blob_tx_hashes
          IN  \A i \in 1..Len(hashes) :
                 /\ hashes[i] \in TxKeys(pool)
                 /\ TxGet(pool, hashes[i]).cell_mask = ALL_ONES]_vars

\* A CONSERVATIVE block has been produced from a pool that also holds an
\* entry with columns missing, and the block leaves that entry out
ConservativeOnlyFullWitness ==
    /\ inclusion_policy = "CONSERVATIVE"
    /\ blocks_produced > 0
    /\ LET pool == node_pool[last_block.proposer]
       IN  /\ Len(pool) = 2
           /\ pool[1].cell_mask # ALL_ONES
           /\ pool[1].tx_hash # last_block.blob_tx_hashes[1]
           /\ pool[2].cell_mask = ALL_ONES


\* cell_mask of the entry with hash h, which the pool holds
MaskOf(pool, h) == TxGet(pool, h).cell_mask

\* C20: for every entry of every pool reached and all masks m1, m2:
\* merge_cells(h, m1); merge_cells(h, m2) and the calls in the other order,
\* with either call repeated, leave the same pool, in which the entry has
\* exactly the columns of m0, m1 and m2 and every other entry is untouched;
\* merge_cells returns the new mask; a call for a hash the pool does not hold
\* changes nothing; and no step of a pool clears a column of an entry.
MergeCellsCommutes ==
    /\ [](\A n \in NodeActors, h \in PoolTxs, m1 \in Masks, m2 \in Masks :
            LET pool == node_pool[n]
                p1 == merge_cells(pool, h, m1)
                p12 == merge_cells(p1.pool, h, m2)
                p21 == merge_cells(merge_cells(pool, h, m2).pool, h, m1)
                p11 == merge_cells(p1.pool, h, m1)
                p121 == merge_cells(p12.pool, h, m1)
                p122 == merge_cells(p12.pool, h, m2)
            IN  IF h \notin TxKeys(pool)
                THEN p1.pool = pool /\ p1.returned = -1
                ELSE /\ p12.pool = p21.pool
                     /\ p11.pool = p1.pool
                     /\ p121.pool = p12.pool
                     /\ p122.pool = p12.pool
                     /\ Bits(MaskOf(p12.pool, h)) =
                           Bits(MaskOf(pool, h)) \cup Bits(m1) \cup Bits(m2)
                     /\ MaskOf(p12.pool, h) \in Masks
                     /\ p12.returned = MaskOf(p12.pool, h)
                     /\ Len(p12.pool) = Len(pool)
                     /\ \A i \in 1..Len(pool) :
                           pool[i].tx_hash # h => p12.pool[i] = pool[i]
                           )
    /\ [][\A n \in NodeActors : \A h \in TxKeys(node_pool[n]) :
            /\ h \in TxKeys(node_pool'[n])
            /\ Bits(MaskOf(node_pool[n], h)) \subseteq Bits(MaskOf(node_pool'[n], h))]_vars

\* An entry that entered its pool with at most one column has them all
MergeCellsCommutesWitness ==
    \E n \in NodeActors : \E i \in 1..Len(node_pool[n]) :
        node_pool[n][i].cell_mask = ALL_ONES


\* The dispatch of a BlockAnnouncement and of a TX_CLEANUP timer to the node
IsBlockHandled == IsDispatch /\ last_event'.kind = "block"
IsTxCleanup == IsDispatch /\ last_event'.kind = "cleanup"

\* The TX_CLEANUP timers for hash h in the queue
CleanupTimers(queue, h) == {e \in QueuedEvents(queue) : e.tx_hash = h}

\* The entries that leave the pool in a step
LeavesPool == TxKeys(txs) \ TxKeys(txs')

\* C12, as stated: handling a BlockAnnouncement removes every listed hash
\* from pending_txs; a hash with a TX_CLEANUP timer pending stays in the pool
\* until a TX_CLEANUP timer for it is dispatched; and the hash is absent
\* from the pool right after that dispatch.
ListedStaysUntilCleanup ==
    [][/\ IsBlockHandled =>
               pending_txs' = pending_txs \ ListedHashes(last_event'.hashes)
       /\ \A h \in LeavesPool :
               CleanupTimers(event_queue, h) # {}
                  => IsTxCleanup /\ last_event'.tx_hash = h
       /\ IsTxCleanup => last_event'.tx_hash \notin TxKeys(txs')]_vars

\* C12, amended: handling a BlockAnnouncement removes every listed hash from
\* pending_txs, leaves the pool as it is and schedules, for every listed
\* hash the pool holds, one TX_CLEANUP timer cleanup_delay later and none
\* for any other hash; the dispatch of a TX_CLEANUP timer happens at the
\* timer's time and leaves the pool without its hash and otherwise unchanged;
\* and an entry leaves the pool only by such a dispatch or by an add that
\* replaces or evicts.
CleanupAfterAnnouncement ==
    [][/\ IsBlockHandled =>
            LET listed == ListedHashes(last_event'.hashes)
                scheduled == QueuedEvents(event_queue') \ QueuedEvents(event_queue)
            IN  /\ pending_txs' = pending_txs \ listed
                /\ txs' = txs /\ by_sender' = by_sender /\ total_size' = total_size
                /\ QueuedEvents(event_queue) \subseteq QueuedEvents(event_queue')
                /\ Len(event_queue') = Len(event_queue) + Cardinality(scheduled)
                /\ \A h \in Hashes :
                      Cardinality({e \in scheduled : e.tx_hash = h}) =
                         IF h \in listed /\ h \in TxKeys(txs) THEN 1 ELSE 0
                /\ \A e \in scheduled :
                      /\ e.kind = "cleanup"
                      /\ e.timestamp = current_time' + cleanup_delay
       /\ IsTxCleanup =>
            /\ last_event' \in QueuedEvents(event_queue)
            /\ current_time' = last_event'.timestamp
            /\ TxKeys(txs') = TxKeys(txs) \ {last_event'.tx_hash}
            /\ pending_txs' = pending_txs
       /\ \A h \in LeavesPool :
            \/ IsTxCleanup /\ last_event'.tx_hash = h
            \/ last_result'.added /\ (last_result'.replaced \/ last_result'.evicted > 0)]_vars

\* A block announced at time 1 listed a hash of the pool; its timer was
\* dispatched cleanup_delay later and removed the entry, another entry stays,
\* and a hash no block listed is still pending
CleanupAfterAnnouncementWitness ==
    /\ events_processed = 2
    /\ last_event.kind = "cleanup"
    /\ last_event.timestamp = 1 + cleanup_delay
    /\ current_time = 1 + cleanup_delay
    /\ last_event.tx_hash \notin TxKeys(txs)
    /\ Len(txs) = 1
    /\ pending_txs = {3}

\* ------------------------------------------------------------------------
\* Claims about the fetch state machine of a node
\* ------------------------------------------------------------------------
\* The ids of the entries of _pending_requests
RequestIds(n) == {q.request_id : q \in n.pending_requests}

\* C21: between event dispatches, the PendingTx's pending_request_id is null
\* or the id of an entry that is in the node's pending_requests table.
RequestIdLive ==
    node.has_pending /\ node.pending_request_id # NoRequest
        => node.pending_request_id \in RequestIds(node)

\* A tx-body request timed out and was retried, the retry was answered and
\* the PendingTx now has a cells request outstanding, its third request
RequestIdLiveWitness ==
    /\ node.has_pending
    /\ node.state = "FETCHING_CELLS"
    /\ node.tx_requests = 2
    /\ node.pending_request_id = 2
    /\ RequestIds(node) = {2}

\* The step dispatches the oldest REQUEST_TIMEOUT timer: request ids are
\* never reused, so the head of the timers changes only when it is popped
IsRequestTimeout ==
    /\ node.request_timers # <<>>
    /\ \/ node'.request_timers = <<>>
       \/ Head(node'.request_timers) # Head(node.request_timers)

\* C27: the dispatch of a RequestTimeout whose request id is not in
\* pending_requests leaves the PendingTx, the pending requests and the pool
\* entry as they are and sends no message: only the timer is gone.
StaleTimeoutDiscarded ==
    [][IsRequestTimeout /\ Head(node.request_timers) \notin RequestIds(node)
          => node' = PopRequestTimer(node)]_vars

\* The response to tx-body request 0 arrived and started cells request 1,
\* then the timer of request 0 fired: the cells request is still outstanding
\* and only its timer is left
StaleTimeoutDiscardedWitness ==
    /\ node.has_pending
    /\ node.state = "FETCHING_CELLS"
    /\ node.next_request_id = 2
    /\ node.pending_request_id = 1
    /\ RequestIds(node) = {1}
    /\ node.request_timers = <<1>>

\* The entry of _pending_requests with the id
RequestOf(n, request_id) == CHOOSE q \in n.pending_requests : q.request_id = request_id

\* The step dispatches the timer of the PendingTx's outstanding request,
\* which is of type request_type
IsOutstandingTimeout(request_type) ==
    /\ IsRequestTimeout
    /\ node.has_pending
    /\ node.pending_request_id = Head(node.request_timers)
    /\ node.pending_request_id \in RequestIds(node)
    /\ RequestOf(node, node.pending_request_id).request_type = request_type

\* C30: when the timer of the PendingTx's outstanding tx-body request is
\* dispatched, the node sends one new tx-body request to a peer of
\* provider_peers \cup sampler_peers other than the peer that timed out and
\* it becomes the outstanding request, with a timer of its own; if there is
\* no such peer the PendingTx is removed and nothing is sent.
TimeoutTriesOtherPeer ==
    [][IsOutstandingTimeout("tx") =>
          LET tried_peer == RequestOf(node, node.pending_request_id).target_peer
              others == (node.provider_peers \cup node.sampler_peers) \ {tried_peer}
          IN  IF others # {}
              THEN /\ node'.has_pending
                   /\ node'.sent = Append(node.sent, node'.sent[Len(node'.sent)])
                   /\ node'.sent[Len(node'.sent)] \in others
                   /\ node'.pending_request_id = node.next_request_id
                   /\ node'.pending_requests =
                         (node.pending_requests
                             \ {RequestOf(node, node.pending_request_id)})
                         \cup {[request_id |-> node.next_request_id,
                                target_peer |-> node'.sent[Len(node'.sent)],
                                request_type |-> "tx"]}
                   /\ node'.request_timers =
                         Append(Tail(node.request_timers), node.next_request_id)
                   /\ node'.state = node.state
                   /\ node'.provider_peers = node.provider_peers
                   /\ node'.sampler_peers = node.sampler_peers
              ELSE /\ ~node'.has_pending
                   /\ node'.sent = node.sent
                   /\ node'.inflight = node.inflight
                   /\ node'.pending_requests =
                         node.pending_requests
                             \ {RequestOf(node, node.pending_request_id)}
                   /\ node'.pool_mask = node.pool_mask]_vars

\* Peers 1 and 2 announced, the request to peer 1 timed out and the request
\* to peer 2 is outstanding
TimeoutTriesOtherPeerWitness ==
    /\ node.has_pending
    /\ node.state = "FETCHING_TX"
    /\ node.sent = <<1, 2>>
    /\ node.pending_request_id = 1
    /\ node.pending_requests = {[request_id |-> 1, target_peer |-> 2,
                                 request_type |-> "tx"]}
    /\ node.request_timers = <<1>>

\* The step dispatches a Cells message: only that takes a cells request
\* out of the requests awaiting a response
IsCellsArrival == \E q \in node.inflight \ node'.inflight : q.kind = "cells"

\* The step dispatches a BroadcastTransaction that is admitted: only that
\* step inserts the entry and leaves the PendingTx and the messages awaited
\* as they are
IsBroadcast ==
    /\ node'.pool_mask # node.pool_mask
    /\ node'.has_pending = node.has_pending
    /\ node'.inflight = node.inflight

\* C25: for every node state reached and every Cells message, _handle_cells
\* removes the PendingTx (completes it) only if, for a PROVIDER, the message
\* carries the full mask, and the entry inserted has cell_mask = ALL_ONES;
\* only if, for a SAMPLER, the received mask accumulated with the message's
\* covers the custody mask, and the entry inserted has that accumulated
\* mask; and, an admitted BroadcastTransaction apart, the pool entry of the
\* hash is set by no other step than the dispatch of a Cells message that
\* completes the PendingTx.
CompletesOnEnoughCells ==
    /\ [](\A cell_mask \in Masks : \A m \in _handle_cells(node, cell_mask) :
             node.has_pending /\ ~m.has_pending =>
                LET received == BitOr(node.cells_received, cell_mask)
                IN  IF node.role = "PROVIDER"
                    THEN /\ cell_mask = ALL_ONES
                         /\ m.pool_mask \in {ALL_ONES, node.pool_mask}
                    ELSE /\ Bits(custody_mask) \subseteq Bits(received)
                         /\ m.pool_mask \in {received, node.pool_mask})
    /\ [][node'.pool_mask # node.pool_mask /\ ~IsBroadcast =>
             /\ IsCellsArrival
             /\ node.has_pending /\ ~node'.has_pending
             /\ node.pool_mask = NoMask
             /\ IF node.role = "PROVIDER" THEN node'.pool_mask = ALL_ONES
                ELSE Bits(custody_mask) \subseteq Bits(node'.pool_mask)]_vars

\* A sampler was answered with its custody column only and completed: the
\* pool entry has exactly that column
CompletesOnEnoughCellsWitness ==
    /\ node.role = "SAMPLER"
    /\ ~node.has_pending
    /\ node.pool_mask = custody_mask
    /\ node.next_request_id = 2

\* C22: a PendingTx in FETCHING_TX or FETCHING_CELLS has an outstanding
\* request whose timeout is scheduled, so that every PendingTx is removed
\* in the end.
FetchingHasRequest ==
    node.has_pending /\ node.state \in {"FETCHING_TX", "FETCHING_CELLS"}
        => /\ node.pending_request_id \in RequestIds(node)
           /\ \E i \in 1..Len(node.request_timers) :
                 node.request_timers[i] = node.pending_request_id

\* The step dispatches a PooledTransactions message
IsTransactionsArrival == \E q \in node.inflight \ node'.inflight : q.kind = "tx"

\* C23: a PendingTx enters FETCHING_CELLS only from FETCHING_TX, by the
\* dispatch of a PooledTransactions message while its tx-body request is
\* outstanding; in ANNOUNCED or AWAITING_PROVIDERS no message starts a cell
\* fetch.
CellsFetchOnlyFromFetchingTx ==
    [][node'.state = "FETCHING_CELLS" /\ node.state # "FETCHING_CELLS" =>
          /\ node.has_pending
          /\ node.state = "FETCHING_TX"
          /\ node.pending_request_id \in RequestIds(node)
          /\ RequestOf(node, node.pending_request_id).request_type = "tx"
          /\ IsTransactionsArrival]_vars

\* C24: an admitted BroadcastTransaction apart, the node inserts the tx
\* into its pool only for a PendingTx that is in FETCHING_CELLS with its tx
\* body received; a Cells message for a PendingTx in an earlier state does
\* not complete it.
InsertOnlyWhenFetchingCells ==
    [][/\ node'.pool_mask # node.pool_mask /\ ~IsBroadcast =>
             /\ node.has_pending
             /\ node.state = "FETCHING_CELLS"
             /\ node.tx_body_received
       /\ IsCellsArrival /\ node.has_pending /\ node.state # "FETCHING_CELLS"
             => node'.has_pending]_vars

\* C28: the dispatch of the RequestTimeout of request r neither drops a
\* PendingTx whose pending_request_id is not r nor sends a request for it,
\* also when that PendingTx was created for the hash after the one that
\* issued r was removed.
SupersededTimeoutIsNoOp ==
    [][/\ IsRequestTimeout
       /\ node.has_pending
       /\ node.pending_request_id # Head(node.request_timers)
       => /\ node'.has_pending
          /\ node'.pending_request_id = node.pending_request_id
          /\ node'.sent = node.sent
          /\ node'.inflight = node.inflight]_vars

\* C29: at most two tx-body requests are sent for one PendingTx, the
\* original and one retry, and the PendingTx is dropped when the timer of
\* the retry is dispatched.
TxRequestRetriedOnce ==
    /\ [](node.has_pending => node.tx_requests <= 2)
    /\ [][IsOutstandingTimeout("tx") /\ node.tx_requests = 2 => ~node'.has_pending]_vars

\* The step dispatches a PROVIDER_OBSERVATION_TIMEOUT timer
IsObservationTimeout == node'.observation_timers = node.observation_timers - 1

\* C26: a SAMPLER sends the first tx-body request of a PendingTx, and the
\* PendingTx leaves AWAITING_PROVIDERS for another fetch state, only when
\* at least min_providers_before_sample provider announcements are recorded
\* or by the dispatch of the ProviderObservationTimeout of the hash.
SamplerWaitsForProviders ==
    [][/\ node.role = "SAMPLER"
       /\ node'.has_pending
       /\ \/ node'.tx_requests = 1 /\ (~node.has_pending \/ node.tx_requests = 0)
          \/ /\ node.has_pending
             /\ node.state = "AWAITING_PROVIDERS"
             /\ node'.state # "AWAITING_PROVIDERS"
       => \/ Cardinality(node'.provider_peers) >= min_providers_before_sample
          \/ IsObservationTimeout]_vars

\* The ids of the REQUEST_TIMEOUT timers scheduled and not yet dispatched
TimerIds(n) == {n.request_timers[i] : i \in 1..Len(n.request_timers)}

\* C31: every entry of pending_requests has its REQUEST_TIMEOUT timer still
\* to come, and the dispatch of the timer of request r leaves the table
\* without r: no PendingRequest outlives its timeout.
RequestGoneByTimeout ==
    /\ [](RequestIds(node) \subseteq TimerIds(node))
    /\ [][IsRequestTimeout => Head(node.request_timers) \notin RequestIds(node')]_vars

\* Request 0 was sent and never answered; its timer was dispatched and the
\* table is empty
RequestGoneByTimeoutWitness ==
    /\ node.next_request_id = 1
    /\ node.inflight # {}
    /\ node.request_timers = <<>>
    /\ node.pending_requests = {}

\* C35: the event Simulator.deliver_command builds for a Command has
\* priority 1, as the events of timers have, so that at a tied timestamp the
\* events of messages (priority 0) are dispatched before it.
CommandsHavePriorityOne ==
    [][DeliverCommand =>
          \E e \in QueuedEvents(event_queue') :
             e.order = sched_count' /\ e.priority = 1]_vars

\* The includable entries of a pool in priority order
Candidates(policy, pool) ==
    SelectSeq(iter_by_priority(pool), LAMBDA tx : _is_includable(policy, tx))

\* C36: the transactions _select_blobs picks are a prefix of the includable
\* entries in descending effective_tip: packing stops at the first candidate
\* that does not fit and includes none that is ranked after it.
PackingIsPrefix ==
    [][SelectBlobs =>
          LET hashes == last_block'.blob_tx_hashes
              candidates == HashesOf(Candidates(inclusion_policy, node_pool[1]))
          IN  /\ Len(hashes) <= Len(candidates)
              /\ hashes = SubSeq(candidates, 1, Len(hashes))]_vars

\* ------------------------------------------------------------------------
\* Eviction tie-break (C37)
\* ------------------------------------------------------------------------
\* C37: every entry that add(e) evicts has, when it is removed, the lowest
\* tx_hash among the stored entries other than e that have the same
\* effective_tip, whatever the order in which they were inserted.
EvictsLowestHashOnTie ==
    \A entry \in Entries :
        \E r \in {add(Pool, entry)} :
            \A i \in 1..Len(r.evicted) :
                \A e \in StoredAtEviction(entry, r, i) :
                    effective_tip(e) = effective_tip(TxGet(txs, r.evicted[i]))
                        => r.evicted[i] <= e.tx_hash

\* ------------------------------------------------------------------------
\* CoDel queue bounds (C39)
\* ------------------------------------------------------------------------
\* C39: on every directed link the virtual queue holds between 0 and
\* max_queue_bytes bytes after every delivery, whatever the sizes of the
\* messages and the times at which they are sent.
QueueBytesBounded ==
    \A l \in Links :
        /\ codel_state[l].queue_bytes >= 0
        /\ codel_state[l].queue_bytes <= max_queue_bytes

\* Two deliveries that together exceed the cap went over one link, whose
\* queue stands at the cap.
QueueBytesBoundedWitness ==
    /\ messages_delivered = 2
    /\ total_bytes > max_queue_bytes
    /\ \E l \in Links : codel_state[l].queue_bytes = max_queue_bytes

PoolAndPendingDisjoint == ~(node.has_pending /\ node.pool_mask # NoMask)

\* C33: once the node has handled a BlockAnnouncement that lists the hash,
\* the hash is not in its pending_txs again: no later announcement or
\* response creates a PendingTx for it.
IncludedStaysAbsent == node.included => ~node.has_pending

\* The step inserts the entry of the hash into the pool
IsInsert == node.pool_mask = NoMask /\ node'.pool_mask # NoMask

\* The announcements _announce_tx sends for an entry with announced_to = done
AnnouncedFrom(n, done) == _announce_tx([n EXCEPT !.announced_to = done])

\* C34: a step that inserts the entry, by BroadcastTransaction or by fetch
\* completion, sends each peer exactly one announcement that carries the
\* entry's cell_mask, and no other step sends one; for every announced_to,
\* _announce_tx sends one announcement with the entry's cell_mask to each
\* peer outside announced_to, none to a peer in it, and leaves every peer in
\* announced_to, so that announcing the entry again sends nothing.
AnnouncedOncePerPeer ==
    /\ [](node.pool_mask # NoMask =>
             /\ node.announced_to = FetchPeers
             /\ _announce_tx(node) = node
             /\ \A done \in SUBSET FetchPeers :
                   LET m == AnnouncedFrom(node, done)
                   IN  /\ m.announced_to = FetchPeers
                       /\ _announce_tx(m) = m
                       /\ \A p \in FetchPeers :
                             m.announcements[p] =
                                IF p \in done THEN node.announcements[p]
                                ELSE Append(node.announcements[p], node.pool_mask))
    /\ [][/\ IsInsert =>
                \A p \in FetchPeers :
                   node'.announcements[p] = Append(node.announcements[p], node'.pool_mask)
          /\ ~IsInsert => node'.announcements = node.announcements]_vars

\* A sampler completed its fetch with the custody column only and announced
\* the entry once to each of its three peers, with that mask
AnnouncedOncePerPeerWitness ==
    /\ node.role = "SAMPLER"
    /\ node.pool_mask = custody_mask
    /\ node.announced_to = FetchPeers
    /\ \A p \in FetchPeers : node.announcements[p] = <<custody_mask>>

\* C38: when Blobpool.add rejects the entry in _handle_broadcast_transaction
\* or in _complete_tx, the hash is not left in pending_txs, nothing is
\* announced, no tx-seen metric is recorded and the pool entry is as before.
RejectedTxDropped ==
    /\ \A outcome \in AddOutcomes(node) \ {"added"} :
          LET m == Admit(node, ALL_ONES, outcome)
          IN  /\ ~m.has_pending
              /\ m.announcements = node.announcements
              /\ m.tx_seen = node.tx_seen
              /\ m.pool_mask = node.pool_mask
    /\ \A cell_mask \in Masks : \A m \in _complete_tx(node, cell_mask) :
          m.pool_mask = node.pool_mask =>
             /\ ~m.has_pending
             /\ m.announcements = node.announcements
             /\ m.tx_seen = node.tx_seen

====
